---- MODULE Spec2Model ----
(***************************************************************************)
(* p2witter: the binary frame codec (src/src/core/protocol.rs) and the     *)
(* single-threaded network loop (src/src/network_handler.rs).              *)
(*                                                                         *)
(* Bytes are naturals 0..255, byte strings are sequences of bytes, and an  *)
(* Option<T> is a sequence of length 0 (None) or 1 (Some(x) = <<x>>), so   *)
(* that None and Some(empty) are different values, as in the source.       *)
(*                                                                         *)
(* Two specifications share the module:                                    *)
(*   CodecSpec  a Decoder fed a byte stream in arbitrary chunks            *)
(*   Spec       the network loop, phase by phase, with its peers           *)
(***************************************************************************)
EXTENDS Integers, Sequences, FiniteSets, TLC

VARIABLES
    \* ---- codec harness (CodecSpec) ----
    sent,            \* the Messages whose encodings form the head of the stream
    wire,            \* the whole byte stream the decoder will be fed
    fed,             \* number of bytes of wire already passed to feed()
    dec,             \* the Decoder: [buf, max_payload]
    result,          \* what the last drain() returned
    out,             \* every Message returned by the drain() calls so far
    cpc,             \* "feed" | "drain": next call on the decoder
    \* ---- network loop (Spec) ----
    pc,              \* phase of the loop iteration, "done" once the loop has returned
    rx_thread,       \* Receiver<Command>: the commands sent and not yet received
    listener,        \* Option<TcpListener>: Some(port) when bound to that port
    identity,        \* Option of the key pair read from the configuration
    handle,          \* the local handle
    clients,         \* Vec<TcpStream>: one socket record per peer
    decoders,        \* Vec<Decoder>
    peer_meta,       \* Vec<Option<PeerMeta>>
    received_frames, \* Vec<(usize, Message)> still to dispatch
    remove_indices,  \* Vec<usize>
    tx_main,         \* events sent to the controller by the command being handled,
                     \* or by the accept, read and dispatch phases of the iteration
    written,         \* [uid, frame, ok] for each write_all call, over the same span
    records,         \* MessageRecords stored, over the same span
    next_uid,        \* connections created so far
    steps,           \* commands taken, connections accepted, frames sent and
                     \* connections closed or reset by the remote ends so far
    shorts,          \* reads that returned less than what was in flight so far
    decode_errs,     \* <<uid, error>> for each drain() error of this iteration
    dispatched,      \* <<uid, Message>> for each frame dispatched in this iteration
    cmd,             \* the command the drain loop has just handled, if any
    failed,          \* uids of the sockets on which a read returned 0 or an error, or a
                     \* write failed, in this iteration
    \* ---- signing and connection tokens (CryptoSpec) ----
    k_pc,            \* the next call of the harness
    k_built,         \* the Message as its sender built and signed it
    k_seen,          \* the Message as it reaches the verifier
    k_verdict,       \* Option of the result of the verification of k_seen
    k_conn,          \* the connection string given to encrypt_conninfo_to_hex
    k_token,         \* the token as it is given to decrypt_conninfo_from_hex
    k_damage,        \* what was done to the token between the two calls
    k_opened,        \* Option of what decrypt_conninfo_from_hex returned
    \* ---- the message log (StoreSpec) ----
    db,              \* the sled tree: a function from keys to values
    call,            \* for each thread, the store_structured call it is in
    appended,        \* the records of the calls that returned, in the order of return
    overlap,         \* whether two calls have ever been in progress at once
    started,         \* calls started so far
    \* ---- a mesh of nodes that each run the loop (MeshSpec) ----
    m_clients,       \* for each node, its table of peers: the node at the other end
                     \* of each socket, by peer id
    m_inq,           \* for each pair <<a, b>> of nodes, the bytes in flight from a to b
    m_shown,         \* for each node, the events its loop sent to its controller
    m_sent,          \* frames written to sockets so far
    m_cmd            \* whether the Chat command has been given

codecVars == <<sent, wire, fed, dec, result, out, cpc>>
netVars == <<pc, rx_thread, listener, identity, handle, clients, decoders, peer_meta,
             received_frames, remove_indices, tx_main, written, records,
             next_uid, steps, shorts, decode_errs, dispatched, cmd, failed>>
cryptoVars == <<k_pc, k_built, k_seen, k_verdict, k_conn, k_token, k_damage, k_opened>>
storeVars == <<db, call, appended, overlap, started>>
meshVars == <<m_clients, m_inq, m_shown, m_sent, m_cmd>>
vars == <<sent, wire, fed, dec, result, out, cpc,
          pc, rx_thread, listener, identity, handle, clients, decoders, peer_meta,
          received_frames, remove_indices, tx_main, written, records,
          next_uid, steps, shorts, decode_errs, dispatched, cmd, failed,
          k_pc, k_built, k_seen, k_verdict, k_conn, k_token, k_damage, k_opened,
          db, call, appended, overlap, started,
          m_clients, m_inq, m_shown, m_sent, m_cmd>>

-----------------------------------------------------------------------------
(* Bounds of the model.                                                    *)

MaxMsgs == 2     \* messages in a codec stream
MaxSteps == 3    \* steps taken on the loop in a run: a command issued, a connection
                 \* made to the listener, a frame sent, a close or a reset
MaxShort == 1    \* reads in a run that return less than what is in flight

-----------------------------------------------------------------------------
(* Option<T>                                                               *)

None == <<>>
Some(x) == <<x>>
IsSome(o) == Len(o) = 1
Unwrap(o) == o[1]

\* Body(v), with v evaluated once however often Body uses it: a local binding
\* (`let x = v;`) of a value that is costly to compute
Once(v, Body(_)) == CHOOSE y \in {Body(x) : x \in {v}} : TRUE

-----------------------------------------------------------------------------
(* Integers on the wire                                                    *)

\* n.to_be_bytes() for an unsigned integer type of w bytes.  Values of the
\* model stay below 2^31, so the digits are taken from the low end.
RECURSIVE to_be_bytes(_, _)
to_be_bytes(n, w) ==
    IF w = 0 THEN <<>> ELSE Append(to_be_bytes(n \div 256, w - 1), n % 256)

\* uN::from_be_bytes(bytes)
RECURSIVE from_be_bytes(_)
from_be_bytes(bytes) ==
    IF bytes = <<>> THEN 0
    ELSE from_be_bytes(SubSeq(bytes, 1, Len(bytes) - 1)) * 256 + bytes[Len(bytes)]

-----------------------------------------------------------------------------
(* Frame codec                                                             *)

CHAT == 1
DM == 2
HELLO == 3
DISCONNECT == 4

HEADER_LEN == 23
MAX_ATTENUATION == 50
DEFAULT_MAX_PAYLOAD == 512 * 1024

Message(v, k, a, p, ts, pk, sig) ==
    [version |-> v, kind |-> k, attenuation |-> a, payload |-> p,
     timestamp |-> ts, public_key |-> pk, signature |-> sig]

\* the 23 header bytes, from the values of the seven header fields
Header(v, k, a, payload_len, pk_len, sig_len, ts) ==
    <<v, k, a>> \o to_be_bytes(payload_len, 4) \o to_be_bytes(pk_len, 4)
        \o to_be_bytes(sig_len, 4) \o to_be_bytes(ts, 8)

OptBytes(o) == IF IsSome(o) THEN Unwrap(o) ELSE <<>>

\* encode with the signature written in front of the public key
encode_swapped(msg) ==
    LET pk_bytes == OptBytes(msg.public_key)
        sig_bytes == OptBytes(msg.signature)
    IN  Header(msg.version, msg.kind, msg.attenuation, Len(msg.payload),
               Len(pk_bytes), Len(sig_bytes), msg.timestamp)
            \o sig_bytes \o pk_bytes \o msg.payload

encode(msg) ==
    LET payload_len == Len(msg.payload)   \* as u32: lossless below 2^32
        pk_bytes == OptBytes(msg.public_key)
        sig_bytes == OptBytes(msg.signature)
        pk_len == Len(pk_bytes)
        sig_len == Len(sig_bytes)
    IN  Header(msg.version, msg.kind, msg.attenuation, payload_len, pk_len,
               sig_len, msg.timestamp)
            \o pk_bytes \o sig_bytes \o msg.payload

with_max_payload(max_payload) == [buf |-> <<>>, max_payload |-> max_payload]

NewDecoder == with_max_payload(DEFAULT_MAX_PAYLOAD)

feed(d, data) == [d EXCEPT !.buf = d.buf \o data]

buffered_len(d) == Len(d.buf)

Ok(msgs) == [ok |-> TRUE, msgs |-> msgs, err |-> <<>>]
Err(name, value) == [ok |-> FALSE, msgs |-> <<>>, err |-> <<name, value>>]

\* the header checks with the attenuation check made first
HeaderError_reordered(buf, max_payload) ==
    LET version == buf[1]
        kind_byte == buf[2]
        attenuation == buf[3]
        payload_len == from_be_bytes(SubSeq(buf, 4, 7))
    IN  IF attenuation > 50 THEN <<"BadAttenuation", attenuation>>
        ELSE IF version # 1 THEN <<"UnsupportedVersion", version>>
        ELSE IF kind_byte \notin {1, 2, 3, 4} THEN <<"UnsupportedVersion", kind_byte>>
        ELSE IF payload_len > max_payload THEN <<"LengthTooLarge", payload_len>>
        ELSE <<>>

\* The checks drain() makes on the header at the head of buf, in source order:
\* <<>> when all pass, the error otherwise.  Needs Len(buf) >= 23.
HeaderError(buf, max_payload) ==
    LET version == buf[1]
        kind_byte == buf[2]
        attenuation == buf[3]
        payload_len == from_be_bytes(SubSeq(buf, 4, 7))
    IN  IF version # 1 THEN <<"UnsupportedVersion", version>>
        ELSE IF kind_byte # CHAT /\ kind_byte # DM /\ kind_byte # HELLO
                /\ kind_byte # DISCONNECT
             THEN <<"UnsupportedVersion", kind_byte>>
        ELSE IF attenuation > MAX_ATTENUATION THEN <<"BadAttenuation", attenuation>>
        ELSE IF payload_len > max_payload THEN <<"LengthTooLarge", payload_len>>
        ELSE <<>>

\* 23 + P + S + L of the header at the head of buf.  usize is 64 bits wide,
\* so the sum of three u32 values cannot wrap.
Needed(buf) ==
    HEADER_LEN + from_be_bytes(SubSeq(buf, 8, 11))
        + from_be_bytes(SubSeq(buf, 12, 15))
        + from_be_bytes(SubSeq(buf, 4, 7))

\* the Message drain() builds from a complete frame at the head of buf
Extract(buf) ==
    LET payload_len == from_be_bytes(SubSeq(buf, 4, 7))
        pk_len == from_be_bytes(SubSeq(buf, 8, 11))
        sig_len == from_be_bytes(SubSeq(buf, 12, 15))
        timestamp == from_be_bytes(SubSeq(buf, 16, 23))
        cursor == HEADER_LEN
        pk == IF pk_len > 0 THEN Some(SubSeq(buf, cursor + 1, cursor + pk_len))
              ELSE None
        cursor2 == cursor + pk_len
        sig == IF sig_len > 0 THEN Some(SubSeq(buf, cursor2 + 1, cursor2 + sig_len))
               ELSE None
        cursor3 == cursor2 + sig_len
        payload == SubSeq(buf, cursor3 + 1, cursor3 + payload_len)
    IN  Message(buf[1], buf[2], buf[3], payload, timestamp, pk, sig)

\* drain() that extracts at most one frame per call
DrainLoop_once(buf, acc, max_payload) ==
    IF Len(buf) < 23 THEN <<Ok(acc), buf>>
    ELSE LET e == HeaderError(buf, max_payload)
         IN  IF e # <<>> THEN <<Err(e[1], e[2]), buf>>
             ELSE IF Len(buf) < Needed(buf) THEN <<Ok(acc), buf>>
             ELSE <<Ok(Append(acc, Extract(buf))),
                    SubSeq(buf, Needed(buf) + 1, Len(buf))>>

\* the loop of drain(): <<result, buffer left in the decoder>>
RECURSIVE DrainLoop(_, _, _)
DrainLoop(buf, acc, max_payload) ==
    IF Len(buf) < HEADER_LEN THEN <<Ok(acc), buf>>
    ELSE LET e == HeaderError(buf, max_payload)
         IN  IF e # <<>> THEN <<Err(e[1], e[2]), buf>>
             ELSE IF Len(buf) < Needed(buf) THEN <<Ok(acc), buf>>
             ELSE Once(<<SubSeq(buf, Needed(buf) + 1, Len(buf)), Append(acc, Extract(buf))>>,
                       LAMBDA next : DrainLoop(next[1], next[2], max_payload))

\* Decoder::drain: [res |-> Result<Vec<Message>, ProtocolError>, dec |-> self after]
drain(d) ==
    Once(DrainLoop(d.buf, <<>>, d.max_payload),
         LAMBDA r : [res |-> r[1], dec |-> [d EXCEPT !.buf = r[2]]])

\* signing bytes that cover the attenuation byte as well
signing_bytes_with_attenuation(msg) ==
    <<msg.version, msg.kind, msg.attenuation>> \o to_be_bytes(Len(msg.payload), 4)
        \o to_be_bytes(msg.timestamp, 8) \o msg.payload

\* Message::signing_bytes: version, kind, payload length as u32, timestamp
\* as u64, payload
signing_bytes(msg) ==
    <<msg.version, msg.kind>> \o to_be_bytes(Len(msg.payload), 4)
        \o to_be_bytes(msg.timestamp, 8) \o msg.payload

disconnect_reason_id(msg) ==
    IF msg.kind # DISCONNECT THEN None
    ELSE IF Len(msg.payload) < 4 THEN None
    ELSE Some(from_be_bytes(SubSeq(msg.payload, 1, 4)))

\* Message::disconnect(ts, reason_id)
disconnect(ts, reason_id) ==
    Message(1, DISCONNECT, 0, to_be_bytes(reason_id, 4), ts, None, None)

-----------------------------------------------------------------------------
(* CodecSpec: a Decoder is built, the stream is fed to it in chunks of any *)
(* size, and drain() is called after each chunk.                           *)

Big == 1073741824    \* 2^30, the oversized length of test_length_too_large
MaxLead == 1         \* messages in front of a raw header

RECURSIVE EncodeAll(_)
EncodeAll(ms) == IF ms = <<>> THEN <<>> ELSE encode(Head(ms)) \o EncodeAll(Tail(ms))

\* Messages with valid field ranges
CodecMsgs ==
    {Message(1, k, a, p, ts, pk, sig) :
        k \in {CHAT, DM, HELLO, DISCONNECT}, a \in {0, MAX_ATTENUATION},
        p \in {<<>>, <<65>>, <<1, 0>>}, ts \in {0, Big + 258},
        pk \in {None, Some(<<7>>)}, sig \in {None, Some(<<9, 1>>)}}

SmallMsgs ==
    {Message(1, CHAT, 0, <<65>>, 258, None, None),
     Message(1, HELLO, MAX_ATTENUATION, <<>>, 0, Some(<<7>>), Some(<<9, 1>>)),
     Message(1, DM, 0, <<1, 0>>, 1, None, Some(<<1>>)),
     Message(1, DISCONNECT, 1, <<0, 0, 0, 2>>, Big, Some(<<1, 1>>), None)}

\* Sequences of 1..n elements of S
RECURSIVE SeqsUpTo(_, _)
SeqsUpTo(S, n) ==
    IF n = 0 THEN {<<>>}
    ELSE LET shorter == SeqsUpTo(S, n - 1)
         IN  shorter \cup {Append(q, x) : q \in {r \in shorter : Len(r) = n - 1}, x \in S}

\* Headers a remote end may send: every combination of good and bad fields
RawHeaders ==
    {Header(v, k, a, l, ps[1], ps[2], 0) :
        v \in {1, 99}, k \in {CHAT, 9}, a \in {0, 99}, l \in {0, 1, Big},
        ps \in {<<0, 0>>, <<Big, 0>>, <<0, Big>>}}

CodecStreams ==
    {<<ms, <<>>, mp>> : ms \in {<<m>> : m \in CodecMsgs}, mp \in {1, DEFAULT_MAX_PAYLOAD}}
    \cup {<<ms, <<>>, mp>> : ms \in SeqsUpTo(SmallMsgs, MaxMsgs) \ {<<>>},
                             mp \in {1, DEFAULT_MAX_PAYLOAD}}
    \cup {<<ms, h, DEFAULT_MAX_PAYLOAD>> : ms \in SeqsUpTo(SmallMsgs, MaxLead), h \in RawHeaders}

CryptoIdle ==
    /\ k_pc = "off"
    /\ k_built = <<>>
    /\ k_seen = <<>>
    /\ k_verdict = <<>>
    /\ k_conn = <<>>
    /\ k_token = <<>>
    /\ k_damage = "none"
    /\ k_opened = <<>>

StoreIdle ==
    /\ db = <<>>
    /\ call = <<>>
    /\ appended = <<>>
    /\ overlap = FALSE
    /\ started = 0

MeshIdle ==
    /\ m_clients = <<>>
    /\ m_inq = <<>>
    /\ m_shown = <<>>
    /\ m_sent = 0
    /\ m_cmd = FALSE

NetIdle ==
    /\ pc = "off"
    /\ listener = None
    /\ rx_thread = <<>>
    /\ identity = <<>>
    /\ handle = <<>>
    /\ clients = <<>>
    /\ decoders = <<>>
    /\ peer_meta = <<>>
    /\ received_frames = <<>>
    /\ remove_indices = <<>>
    /\ tx_main = <<>>
    /\ written = <<>>
    /\ records = <<>>
    /\ next_uid = 0
    /\ steps = 0
    /\ shorts = 0
    /\ decode_errs = <<>>
    /\ dispatched = <<>>
    /\ cmd = <<>>
    /\ failed = {}

CodecInit ==
    /\ \E st \in CodecStreams :
        /\ sent = st[1]
        /\ wire = EncodeAll(st[1]) \o st[2]
        /\ dec = with_max_payload(st[3])
    /\ fed = 0
    /\ result = Ok(<<>>)
    /\ out = <<>>
    /\ cpc = "feed"
    /\ NetIdle
    /\ CryptoIdle
    /\ StoreIdle
    /\ MeshIdle

\* decoder.feed(&wire[fed..fed+n])
Feed(n) ==
    /\ cpc = "feed"
    /\ fed + n <= Len(wire)
    /\ dec' = feed(dec, SubSeq(wire, fed + 1, fed + n))
    /\ fed' = fed + n
    /\ cpc' = "drain"
    /\ UNCHANGED <<sent, wire, result, out>>
    /\ UNCHANGED <<netVars, cryptoVars, storeVars, meshVars>>

\* decoder.drain()
Drain ==
    /\ cpc = "drain"
    /\ LET r == drain(dec)
       IN  /\ dec' = r.dec
           /\ result' = r.res
           /\ out' = out \o r.res.msgs
    /\ cpc' = "feed"
    /\ UNCHANGED <<sent, wire, fed>>
    /\ UNCHANGED <<netVars, cryptoVars, storeVars, meshVars>>

CodecNext ==
    \/ \E n \in 1..Len(wire) : Feed(n)
    \/ Drain

CodecSpec == CodecInit /\ [][CodecNext]_vars

-----------------------------------------------------------------------------
(* Codec properties                                                        *)

\* a Message with valid field ranges, for a decoder with cap max_payload
ValidMsg(m, max_payload) ==
    /\ m.version = 1
    /\ m.kind \in {1, 2, 3, 4}
    /\ m.attenuation \in 0..50
    /\ Len(m.payload) <= max_payload
    /\ m.public_key # Some(<<>>)
    /\ m.signature # Some(<<>>)

ValidStream ==
    /\ wire = EncodeAll(sent)
    /\ \A i \in 1..Len(sent) : ValidMsg(sent[i], dec.max_payload)

\* C1: a fresh decoder that has been fed exactly encode(m), for a Message m
\* with valid field ranges, returns <<m>> from drain() and is left with
\* buffered_len() = 0.
C1_RoundTrip ==
    [][(/\ cpc = "drain"
        /\ Len(sent) = 1
        /\ ValidMsg(sent[1], dec.max_payload)
        /\ dec.buf = encode(sent[1]))
       => (result' = Ok(<<sent[1]>>) /\ buffered_len(dec') = 0)]_vars

C1_Witness ==
    /\ cpc = "feed"
    /\ Len(sent) = 1
    /\ wire = encode(sent[1])
    /\ fed = Len(wire)
    /\ IsSome(sent[1].public_key)
    /\ IsSome(sent[1].signature)
    /\ sent[1].payload = <<1, 0>>
    /\ sent[1].timestamp = Big + 258
    /\ result = Ok(sent)
    /\ buffered_len(dec) = 0

\* offset in the stream of the last byte of the i-th message
FrameEnd(i) == Len(EncodeAll(SubSeq(sent, 1, i)))

\* number of messages whose last byte has been fed
Completed == Cardinality({i \in 1..Len(sent) : FrameEnd(i) <= fed})

\* C2: for a stream of valid messages split into chunks in any way, after the
\* drain() that follows each chunk the messages returned so far are exactly
\* those whose last byte has been fed, in wire order, and the latest drain()
\* returned the last of them; so a message is returned by the drain() after
\* the chunk holding its last byte, not before and not after.
C2_ChunkingIndependent ==
    (cpc = "feed" /\ ValidStream)
        => /\ result.ok
           /\ out = SubSeq(sent, 1, Completed)
           /\ Len(result.msgs) <= Len(out)
           /\ result.msgs = SubSeq(out, Len(out) - Len(result.msgs) + 1, Len(out))
           /\ buffered_len(dec) = fed - (IF Completed = 0 THEN 0 ELSE FrameEnd(Completed))

\* two messages, the first returned by an earlier drain() than the second,
\* the second split across chunks
C2_Witness ==
    /\ cpc = "feed"
    /\ ValidStream
    /\ Len(sent) = 2
    /\ sent[1] # sent[2]
    /\ fed = Len(wire)
    /\ out = sent
    /\ result.msgs = <<sent[2]>>

\* the decode checks as the specification lists them
ListedError(buf, max_payload) ==
    CASE buf[1] # 1 -> <<"UnsupportedVersion", buf[1]>>
      [] buf[1] = 1 /\ buf[2] \notin {1, 2, 3, 4} -> <<"UnsupportedVersion", buf[2]>>
      [] buf[1] = 1 /\ buf[2] \in {1, 2, 3, 4} /\ buf[3] > 50 -> <<"BadAttenuation", buf[3]>>
      [] buf[1] = 1 /\ buf[2] \in {1, 2, 3, 4} /\ buf[3] <= 50
            /\ from_be_bytes(SubSeq(buf, 4, 7)) > max_payload
            -> <<"LengthTooLarge", from_be_bytes(SubSeq(buf, 4, 7))>>
      [] OTHER -> <<>>

\* the head of buf is a header that passes the checks with less than
\* 23 + P + S + L bytes behind it
IncompleteFrame(buf, max_payload) ==
    /\ Len(buf) >= 23
    /\ ListedError(buf, max_payload) = <<>>
    /\ Len(buf) < 23 + from_be_bytes(SubSeq(buf, 8, 11))
                     + from_be_bytes(SubSeq(buf, 12, 15))
                     + from_be_bytes(SubSeq(buf, 4, 7))

IsSuffix(a, b) == Len(a) <= Len(b) /\ a = SubSeq(b, Len(b) - Len(a) + 1, Len(b))

-----------------------------------------------------------------------------
(* Text                                                                    *)

REPLACEMENT == 65533    \* U+FFFD

\* the length of the longest prefix of seq whose elements are all below 128
AsciiPrefix(seq) ==
    LET high == {i \in 1..Len(seq) : seq[i] >= 128} \cup {Len(seq) + 1}
    IN  (CHOOSE i \in high : \A j \in high : i <= j) - 1

\* String::from_utf8_lossy(bytes) as a sequence of codepoints.  ASCII bytes
\* and two-byte sequences are decoded; any other byte becomes U+FFFD.
RECURSIVE from_utf8_lossy(_)
from_utf8_lossy(bytes) ==
    LET k == AsciiPrefix(bytes)
        rest == SubSeq(bytes, k + 1, Len(bytes))
    IN  IF rest = <<>> THEN bytes
        ELSE SubSeq(bytes, 1, k) \o
             (IF rest[1] >= 194 /\ rest[1] <= 223 /\ Len(rest) >= 2
                 /\ rest[2] >= 128 /\ rest[2] <= 191
              THEN <<(rest[1] - 192) * 64 + (rest[2] - 128)>>
                       \o from_utf8_lossy(SubSeq(rest, 3, Len(rest)))
              ELSE <<REPLACEMENT>> \o from_utf8_lossy(Tail(rest)))

\* str::as_bytes for codepoints below U+0800
RECURSIVE as_bytes(_)
as_bytes(str) ==
    LET k == AsciiPrefix(str)
        rest == SubSeq(str, k + 1, Len(str))
    IN  IF rest = <<>> THEN str
        ELSE SubSeq(str, 1, k)
                \o <<192 + (rest[1] \div 64), 128 + (rest[1] % 64)>>
                \o as_bytes(Tail(rest))

AT_SIGN == 64
COLON == 58
SPACE == 32
HANDLE_LIMIT == 80

starts_with(str, c) == Len(str) >= 1 /\ str[1] = c

\* chars().count()
chars_count(str) == Len(str)

\* the handle rule with the limit itself allowed
valid_handle_inclusive(str) ==
    starts_with(str, AT_SIGN) /\ chars_count(str) <= HANDLE_LIMIT

\* the handle rule of the HELLO check
valid_handle(str) == starts_with(str, AT_SIGN) /\ chars_count(str) < HANDLE_LIMIT

\* str::find(':'): Some(0-based index of the first ':') or None
find(str, c) ==
    IF \E i \in 1..Len(str) : str[i] = c
    THEN Some((CHOOSE i \in 1..Len(str) : str[i] = c /\ \A j \in 1..(i - 1) : str[j] # c) - 1)
    ELSE None

WhiteSpace == {9, 10, 11, 12, 13, SPACE}

RECURSIVE trim_start(_)
trim_start(str) ==
    IF str # <<>> /\ str[1] \in WhiteSpace THEN trim_start(Tail(str)) ELSE str

RECURSIVE trim_end(_)
trim_end(str) ==
    IF str # <<>> /\ str[Len(str)] \in WhiteSpace
    THEN trim_end(SubSeq(str, 1, Len(str) - 1)) ELSE str

trim(str) == trim_end(trim_start(str))

\* n copies of codepoint c
Repeat(c, n) == [i \in 1..n |-> c]

PLUS == 43
DIGIT_0 == 48
DIGIT_9 == 57

\* the value of a string of decimal digits
RECURSIVE DecimalValue(_)
DecimalValue(digits) ==
    IF digits = <<>> THEN 0
    ELSE DecimalValue(SubSeq(digits, 1, Len(digits) - 1)) * 10
            + (digits[Len(digits)] - DIGIT_0)

\* the parse that treats a string that is no number as 0
parse_usize_or_zero(str) ==
    IF str # <<>> /\ \A i \in 1..Len(str) : str[i] >= DIGIT_0 /\ str[i] <= DIGIT_9
    THEN Some(DecimalValue(str))
    ELSE Some(0)

\* str::parse::<usize>(): Some(n) for Ok(n), None for Err.  An optional '+'
\* and then one or more decimal digits; the strings of the model are short
\* enough for the value to fit a usize.
parse_usize(str) ==
    LET digits == IF str # <<>> /\ str[1] = PLUS THEN Tail(str) ELSE str
    IN  IF digits # <<>> /\ \A i \in 1..Len(digits) :
                                digits[i] >= DIGIT_0 /\ digits[i] <= DIGIT_9
        THEN Some(DecimalValue(digits))
        ELSE None

-----------------------------------------------------------------------------
(* Cryptographic primitives.  Ed25519 and ChaCha20-Poly1305 are idealised: *)
(* a signature is valid for exactly one (message, public key) pair, and a  *)
(* sealed payload opens only if its tag matches.                           *)

KeyPair(k) == [pkcs8 |-> <<0, k>>, public |-> <<k>>]

PublicOf(pkcs8) == Tail(pkcs8)

sign_ed25519(message, pkcs8) == PublicOf(pkcs8) \o message

\* TRUE for Ok(()), FALSE for Err(Verify)
verify_ed25519(message, signature, public_key) == signature = public_key \o message

NONCE_LEN == 12
TAG_LEN == 16

RECURSIVE Sum(_)
Sum(bytes) == IF bytes = <<>> THEN 0 ELSE (bytes[1] + Sum(Tail(bytes))) % 256

SealTag(cipher, nonce) == [i \in 1..TAG_LEN |-> (Sum(cipher) + nonce[1] + i) % 256]

\* encrypt_dm_payload with the nonce the random generator returned
encrypt_dm_payload(plain, nonce) ==
    LET cipher == [i \in 1..Len(plain) |-> (plain[i] + nonce[1]) % 256]
    IN  nonce \o cipher \o SealTag(cipher, nonce)

\* decrypt_dm_payload: Some(plain) for Ok, None for Err(Decrypt)
decrypt_dm_payload(data) ==
    IF Len(data) < NONCE_LEN + TAG_LEN THEN None
    ELSE LET nonce == SubSeq(data, 1, NONCE_LEN)
             cipher == SubSeq(data, NONCE_LEN + 1, Len(data) - TAG_LEN)
             tag == SubSeq(data, Len(data) - TAG_LEN + 1, Len(data))
         IN  IF tag # SealTag(cipher, nonce) THEN None
             ELSE Some([i \in 1..Len(cipher) |-> (cipher[i] + 256 - nonce[1]) % 256])

\* hex_val: Some(value of the hex digit b) or None
hex_val(b) ==
    IF b >= 48 /\ b <= 57 THEN Some(b - 48)
    ELSE IF b >= 97 /\ b <= 102 THEN Some(b - 97 + 10)
    ELSE IF b >= 65 /\ b <= 70 THEN Some(b - 65 + 10)
    ELSE None

\* the characters "0123456789abcdef"
HexDigits == <<48, 49, 50, 51, 52, 53, 54, 55, 56, 57, 97, 98, 99, 100, 101, 102>>

\* to_hex with the low nibble of each byte written first
to_hex_swapped(data) ==
    [i \in 1..(2 * Len(data)) |->
        IF i % 2 = 1 THEN HexDigits[(data[(i + 1) \div 2] % 16) + 1]
        ELSE HexDigits[(data[i \div 2] \div 16) + 1]]

\* to_hex(data)
to_hex(data) ==
    [i \in 1..(2 * Len(data)) |->
        IF i % 2 = 1 THEN HexDigits[(data[(i + 1) \div 2] \div 16) + 1]
        ELSE HexDigits[(data[i \div 2] % 16) + 1]]

\* from_hex(s): Some(bytes) for Ok, None for Err(Key)
\* The length and the digits are those of the bytes of s.
from_hex(s) ==
    Once(as_bytes(s), LAMBDA bytes :
        IF Len(bytes) % 2 # 0 THEN None
        ELSE IF \E i \in 1..Len(bytes) : ~IsSome(hex_val(bytes[i])) THEN None
        ELSE Some([i \in 1..(Len(bytes) \div 2) |->
                    Unwrap(hex_val(bytes[2 * i - 1])) * 16
                        + Unwrap(hex_val(bytes[2 * i]))]))

\* encrypt_conninfo_to_hex with the nonce the random generator returned:
\* the sealing of encrypt_dm_payload, under the same key, in hex
encrypt_conninfo_to_hex(conn, nonce) == to_hex(encrypt_dm_payload(as_bytes(conn), nonce))

\* decrypt_conninfo_from_hex: Some(connection string) for Ok, None for Err
decrypt_conninfo_from_hex(token_hex) ==
    Once(from_hex(token_hex), LAMBDA parsed :
        IF ~IsSome(parsed) THEN None
        ELSE Once(decrypt_dm_payload(Unwrap(parsed)), LAMBDA plain :
                IF ~IsSome(plain) THEN None
                ELSE Once(from_utf8_lossy(Unwrap(plain)), LAMBDA text :
                        IF \E i \in 1..Len(text) : text[i] = REPLACEMENT
                        THEN None
                        ELSE Some(text))))

\* m.with_key_sig(pk, sig)
with_key_sig(m, pk, sig) == [m EXCEPT !.public_key = Some(pk), !.signature = Some(sig)]

chat(text, ts) == Message(1, CHAT, 0, as_bytes(text), ts, None, None)
dm(text, ts) == Message(1, DM, 0, as_bytes(text), ts, None, None)
hello(ts, h) == Message(1, HELLO, 0, as_bytes(h), ts, None, None)

Signed(m, pkcs8, pubk) == with_key_sig(m, pubk, sign_ed25519(signing_bytes(m), pkcs8))

build_signed_chat(text, ts, pkcs8, pubk) == Signed(chat(text, ts), pkcs8, pubk)

build_signed_dm(text, ts, nonce, pkcs8, pubk) ==
    Signed([dm(<<>>, ts) EXCEPT !.payload = encrypt_dm_payload(as_bytes(text), nonce)],
           pkcs8, pubk)

build_signed_hello(h, ts, pkcs8, pubk) == Signed(hello(ts, h), pkcs8, pubk)

-----------------------------------------------------------------------------
(* The network loop: state, helpers                                        *)

BUF_SIZE == 2048
ShortRead == 30      \* size of a read that returns less than what is in flight

Clock == {1000}      \* values current_unix_millis() returns

\* nonces the random generator returns
Nonces == {Repeat(3, NONCE_LEN)}

CIRCLE == "O"        \* signature verified
DOT == "."           \* no signature
CROSS == "X"         \* signature invalid

\* "<DM" decrypt error ">"
DM_DECRYPT_ERROR == <<60, 68, 77, 24489, 21495, 12456, 12521, 12540, 62>>

PeerMeta(public_key, last_valid, last_timestamp, h) ==
    [public_key |-> public_key, last_valid |-> last_valid,
     last_timestamp |-> last_timestamp, handle |-> h]

\* a connected TcpStream: the bytes in flight towards this node and the
\* state of the connection ("open", "eof": closed by the remote end,
\* "reset": reads and writes fail, "stalled": the remote end has stopped
\* reading and the send buffer is full, so that a write returns WouldBlock)
Socket(uid) == [uid |-> uid, inq |-> <<>>, status |-> "open"]

\* an event on tx_main
Event(name, id, text, mark) == [ev |-> name, id |-> id, text |-> text, mark |-> mark]

\* one write_all on the socket at index idx (0-based): the attempt and its outcome
WriteAll(idx, frame) ==
    [uid |-> clients[idx + 1].uid, frame |-> frame,
     ok |-> clients[idx + 1].status \notin {"reset", "stalled"}]

\* the uids of the writes of wr that failed
FailedWrites(wr) == {wr[j].uid : j \in {n \in 1..Len(wr) : ~wr[n].ok}}

MessageRecord(ts, kind, from, to, h, text, signed_ok) ==
    [ts_millis |-> ts, kind |-> kind, from_peer_id |-> from, to_peer_id |-> to,
     handle |-> h, text |-> text, signed_ok |-> signed_ok]

Min(a, b) == IF a < b THEN a ELSE b

\* Vec::remove(i), i 0-based
Remove(v, i) == SubSeq(v, 1, i) \o SubSeq(v, i + 2, Len(v))

\* remove the indices of list, taken from its first element to its last
RECURSIVE RemoveFwd(_, _)
RemoveFwd(v, list) ==
    IF list = <<>> THEN v
    ELSE RemoveFwd(Remove(v, list[1]), Tail(list))

\* remove the indices of list, taken from its last element to its first
RECURSIVE RemoveRev(_, _)
RemoveRev(v, list) ==
    IF list = <<>> THEN v
    ELSE RemoveRev(Remove(v, list[Len(list)]), SubSeq(list, 1, Len(list) - 1))

\* sort_unstable() followed by dedup(): the distinct elements, ascending
RECURSIVE SortDedup(_)
SortDedup(list) ==
    LET S == {list[i] : i \in 1..Len(list)}
    IN  IF S = {} THEN <<>>
        ELSE LET m == CHOOSE x \in S : \A y \in S : x <= y
             IN  <<m>> \o SortDedup(SelectSeq(list, LAMBDA x : x # m))

Uids == {clients[i].uid : i \in 1..Len(clients)}

-----------------------------------------------------------------------------
(* What the remote ends send                                               *)

KeyA == KeyPair(11)
KeyB == KeyPair(22)
KeyL == KeyPair(33)

HandleA == <<AT_SIGN, 97>>                               \* "@a"
HandleNoAt == <<110, 111>>                               \* "no"
Handle79 == <<AT_SIGN, 233>> \o Repeat(120, HANDLE_LIMIT - 3)   \* 79 codepoints, 80 bytes
Handle80 == <<AT_SIGN>> \o Repeat(120, HANDLE_LIMIT - 1)        \* 80 codepoints
TextA == HandleA \o <<COLON, SPACE, 104>>                \* "@a: h"

SignedWith(m, key) == Signed(m, key.pkcs8, key.public)

\* the signature of another message under the same key
BadSig(m, key) ==
    with_key_sig(m, key.public, sign_ed25519(signing_bytes(chat(<<33>>, 1)), key.pkcs8))

SigOnly(m, key) == [SignedWith(m, key) EXCEPT !.public_key = None]
KeyOnly(m, key) == [m EXCEPT !.public_key = Some(key.public)]

HelloFrames ==
    {hello(7, HandleA), KeyOnly(hello(7, HandleA), KeyA), SigOnly(hello(7, HandleA), KeyA),
     BadSig(hello(7, HandleA), KeyA), SignedWith(hello(7, HandleA), KeyA),
     SignedWith(hello(8, HandleA), KeyB), SignedWith(hello(7, HandleNoAt), KeyA),
     SignedWith(hello(7, Handle80), KeyA), SignedWith(hello(7, Handle79), KeyA)}

\* texts whose part before the first ':' is 80 codepoints, 79 codepoints, and
\* 79 codepoints followed by a space
Text80 == Handle80 \o <<COLON, SPACE, 104>>
Text79 == Handle79 \o <<COLON, SPACE, 104>>
Text79Space == Handle79 \o <<SPACE, COLON, SPACE, 104>>

ChatFrames ==
    {chat(TextA, 9), SignedWith(chat(TextA, 9), KeyA), SignedWith(chat(TextA, 9), KeyB),
     SigOnly(chat(TextA, 9), KeyA), BadSig(chat(TextA, 9), KeyA),
     chat(Text80, 9), chat(Text79, 9), chat(Text79Space, 9)}

SealedDm == build_signed_dm(TextA, 9, Repeat(3, NONCE_LEN), KeyA.pkcs8, KeyA.public)

DmFrames ==
    {SealedDm, SigOnly(dm(TextA, 9), KeyA), BadSig(SealedDm, KeyA)}

\* a DISCONNECT as Message::disconnect builds it, one with a payload of one
\* byte, and one whose payload reads "@xxx...x:" with 80 codepoints before ':'
DisconnectFrames ==
    {disconnect(5, 2),
     Message(1, DISCONNECT, 0, <<7>>, 5, None, None),
     Message(1, DISCONNECT, 0, as_bytes(Handle80 \o <<COLON>>), 5, None, None)}

BadVersionHeader == Header(99, CHAT, 0, 0, 0, 0, 0)

RemoteFrames ==
    {encode(m) : m \in HelloFrames \cup ChatFrames \cup DmFrames \cup DisconnectFrames}
        \cup {BadVersionHeader}

-----------------------------------------------------------------------------
(* The network loop: one iteration is                                      *)
(*   command drain, accept and read, dispatch of each frame, removal.      *)

CodecIdle ==
    /\ sent = <<>>
    /\ wire = <<>>
    /\ fed = 0
    /\ dec = NewDecoder
    /\ result = Ok(<<>>)
    /\ out = <<>>
    /\ cpc = "off"

\* what the loop finds in the store at start: no identity and no handle,
\* an identity and the handle "@m", or the keys and no handle (the keys
\* have been generated and saved, no handle has been set)
InitStores == {<<None, <<>>>>, <<Some(KeyL), <<AT_SIGN, 109>>>>, <<Some(KeyL), <<>>>>}

Init ==
    /\ pc = "cmd"
    /\ listener = None
    /\ rx_thread = <<>>
    /\ \E st \in InitStores : identity = st[1] /\ handle = st[2]
    /\ clients = <<>>
    /\ decoders = <<>>
    /\ peer_meta = <<>>
    /\ received_frames = <<>>
    /\ remove_indices = <<>>
    /\ tx_main = <<>>
    /\ written = <<>>
    /\ records = <<>>
    /\ next_uid = 0
    /\ steps = 0
    /\ shorts = 0
    /\ decode_errs = <<>>
    /\ dispatched = <<>>
    /\ cmd = None
    /\ failed = {}
    /\ CodecIdle
    /\ CryptoIdle
    /\ StoreIdle
    /\ MeshIdle

\* the signed HELLO written to a new peer at index id, if an identity is loaded
HelloWrites(cl, id, now) ==
    IF IsSome(identity)
    THEN <<[uid |-> cl[id + 1].uid,
            frame |-> encode(build_signed_hello(handle, now, Unwrap(identity).pkcs8,
                                                Unwrap(identity).public)),
            ok |-> TRUE]>>
    ELSE <<>>

\* ---- environment: the remote ends act while the loop sleeps, that is
\* before the first command of an iteration ----

RemoteSend(i, f) ==
    /\ pc = "cmd"
    /\ tx_main = <<>> /\ written = <<>> /\ records = <<>>
    /\ steps < MaxSteps
    /\ i \in 1..Len(clients)
    /\ clients[i].status = "open"
    /\ clients' = [clients EXCEPT ![i].inq = @ \o f]
    /\ steps' = steps + 1
    /\ UNCHANGED <<pc, listener, identity, handle, decoders, peer_meta, received_frames,
                   remove_indices, tx_main, written, records, next_uid, shorts,
                   decode_errs, dispatched>>
    /\ UNCHANGED <<cmd, rx_thread>>
    /\ UNCHANGED failed
    /\ UNCHANGED <<codecVars, cryptoVars, storeVars, meshVars>>

RemoteClose(i) ==
    /\ pc = "cmd"
    /\ tx_main = <<>> /\ written = <<>> /\ records = <<>>
    /\ steps < MaxSteps
    /\ steps' = steps + 1
    /\ i \in 1..Len(clients)
    /\ clients[i].status = "open"
    /\ clients' = [clients EXCEPT ![i].status = "eof"]
    /\ UNCHANGED <<pc, listener, identity, handle, decoders, peer_meta, received_frames,
                   remove_indices, tx_main, written, records, next_uid, shorts,
                   decode_errs, dispatched>>
    /\ UNCHANGED <<cmd, rx_thread>>
    /\ UNCHANGED failed
    /\ UNCHANGED <<codecVars, cryptoVars, storeVars, meshVars>>

RemoteReset(i) ==
    /\ pc = "cmd"
    /\ tx_main = <<>> /\ written = <<>> /\ records = <<>>
    /\ steps < MaxSteps
    /\ steps' = steps + 1
    /\ i \in 1..Len(clients)
    /\ clients[i].status # "reset"
    /\ clients' = [clients EXCEPT ![i].status = "reset"]
    /\ UNCHANGED <<pc, listener, identity, handle, decoders, peer_meta, received_frames,
                   remove_indices, tx_main, written, records, next_uid, shorts,
                   decode_errs, dispatched>>
    /\ UNCHANGED <<cmd, rx_thread>>
    /\ UNCHANGED failed
    /\ UNCHANGED <<codecVars, cryptoVars, storeVars, meshVars>>

RemoteStall(i) ==
    /\ pc = "cmd"
    /\ tx_main = <<>> /\ written = <<>> /\ records = <<>>
    /\ steps < MaxSteps
    /\ steps' = steps + 1
    /\ i \in 1..Len(clients)
    /\ clients[i].status = "open"
    /\ clients' = [clients EXCEPT ![i].status = "stalled"]
    /\ UNCHANGED <<pc, listener, identity, handle, decoders, peer_meta, received_frames,
                   remove_indices, tx_main, written, records, next_uid, shorts,
                   decode_errs, dispatched>>
    /\ UNCHANGED <<cmd, rx_thread>>
    /\ UNCHANGED failed
    /\ UNCHANGED <<codecVars, cryptoVars, storeVars, meshVars>>

\* ---- command drain ----

\* a value of rpc::Command: its variant and its string fields
Command(name, a, b) == [name |-> name, a |-> a, b |-> b]

\* a receive that returns the command sent last
try_recv_newest(q) == [cmd |-> q[Len(q)], rest |-> SubSeq(q, 1, Len(q) - 1)]

\* rx_thread.try_recv() on a queue that is not empty: the command sent first
try_recv(q) == [cmd |-> Head(q), rest |-> Tail(q)]

\* `while let Ok(cmd) = rx_thread.try_recv()` receives c: the queue is empty and
\* the controller sends c just before the receive, or c is what the receive
\* takes from the queue
Receives(c) ==
    /\ pc = "cmd"
    /\ IF rx_thread = <<>>
       THEN steps < MaxSteps /\ steps' = steps + 1 /\ rx_thread' = <<>>
       ELSE /\ try_recv(rx_thread).cmd = c
            /\ rx_thread' = try_recv(rx_thread).rest
            /\ UNCHANGED steps
    /\ cmd' = Some(c)

\* a Shutdown that first tells every peer, with a DISCONNECT frame
CmdShutdown_graceful ==
    /\ Receives(Command("Shutdown", <<>>, <<>>))
    /\ pc' = "done"
    /\ tx_main' = <<Event("shutdown", -1, <<>>, "")>>
    /\ written' = [i \in 1..Len(clients) |-> WriteAll(i - 1, encode(disconnect(0, 0)))]
    /\ records' = <<>>
    /\ UNCHANGED <<listener, identity, handle, clients, decoders, peer_meta,
                   received_frames, remove_indices, next_uid, shorts, decode_errs,
                   dispatched, failed>>
    /\ UNCHANGED <<codecVars, cryptoVars, storeVars, meshVars>>

\* Command::Shutdown: the final event, then the function returns.  What its
\* locals and the queue held at that moment is kept as it was.
CmdShutdown ==
    /\ Receives(Command("Shutdown", <<>>, <<>>))
    /\ pc' = "done"
    /\ tx_main' = <<Event("shutdown", -1, <<>>, "")>>
    /\ written' = <<>>
    /\ records' = <<>>
    /\ UNCHANGED <<listener, identity, handle, clients, decoders, peer_meta,
                   received_frames, remove_indices, next_uid, shorts, decode_errs,
                   dispatched, failed>>
    /\ UNCHANGED <<codecVars, cryptoVars, storeVars, meshVars>>

\* the match of Command::Open without its first test: the listener found is replaced
OpenListener_rebind(l, port, bind_ok) ==
    IF bind_ok
    THEN [listener |-> Some(port), ev |-> Event("listening", -1, port, "")]
    ELSE [listener |-> l, ev |-> Event("bind_error", -1, <<>>, "")]

\* the listener after Command::Open(port) and the event sent, the bind
\* succeeding or failing
OpenListener(l, port, bind_ok) ==
    IF IsSome(l)
    THEN [listener |-> l, ev |-> Event("already_listening", -1, <<>>, "")]
    ELSE IF bind_ok
    THEN [listener |-> Some(port), ev |-> Event("listening", -1, port, "")]
    ELSE [listener |-> l, ev |-> Event("bind_error", -1, <<>>, "")]

\* Command::Open(port)
CmdOpen(port, bind_ok) ==
    /\ Receives(Command("Open", port, <<>>))
    /\ listener' = OpenListener(listener, port, bind_ok).listener
    /\ tx_main' = <<OpenListener(listener, port, bind_ok).ev>>
    /\ written' = <<>>
    /\ records' = <<>>
    /\ UNCHANGED <<pc, identity, handle, clients, decoders, peer_meta, received_frames,
                   remove_indices, next_uid, shorts, decode_errs,
                   dispatched>>
    /\ UNCHANGED failed
    /\ UNCHANGED <<codecVars, cryptoVars, storeVars, meshVars>>

\* Command::Connect(token), the TCP connect succeeding or failing
CmdConnect(token, connect_ok) ==
    /\ Receives(Command("Connect", token, <<>>))
    /\ LET target == decrypt_conninfo_from_hex(token)
       IN  IF ~IsSome(target) THEN
                /\ tx_main' = <<Event("token_error", -1, <<>>, "")>>
                /\ written' = <<>>
                /\ UNCHANGED <<clients, decoders, peer_meta, next_uid>>
           ELSE IF connect_ok THEN
                \E now \in Clock :
                    LET cl == Append(clients, Socket(next_uid))
                        id == Len(cl) - 1
                    IN  /\ clients' = cl
                        /\ decoders' = Append(decoders, NewDecoder)
                        /\ peer_meta' = Append(peer_meta, None)
                        /\ written' = HelloWrites(cl, id, now)
                        /\ tx_main' = <<Event("connected", id, <<>>, "")>>
                        /\ next_uid' = next_uid + 1
           ELSE
                /\ tx_main' = <<Event("connect_error", -1, <<>>, "")>>
                /\ written' = <<>>
                /\ UNCHANGED <<clients, decoders, peer_meta, next_uid>>
    /\ records' = <<>>
    /\ UNCHANGED <<pc, listener, identity, handle, received_frames, remove_indices,
                   shorts, decode_errs, dispatched>>
    /\ UNCHANGED failed
    /\ UNCHANGED <<codecVars, cryptoVars, storeVars, meshVars>>

\* a Close that drops the peers together with the listener
CmdClose_all ==
    /\ Receives(Command("Close", <<>>, <<>>))
    /\ listener' = None
    /\ clients' = <<>>
    /\ decoders' = <<>>
    /\ peer_meta' = <<>>
    /\ tx_main' = <<Event("closed", -1, <<>>, "")>>
    /\ written' = <<>>
    /\ records' = <<>>
    /\ UNCHANGED <<pc, identity, handle, received_frames, remove_indices, next_uid,
                   shorts, decode_errs, dispatched>>
    /\ UNCHANGED failed
    /\ UNCHANGED <<codecVars, cryptoVars, storeVars, meshVars>>

\* Command::Close
CmdClose ==
    /\ Receives(Command("Close", <<>>, <<>>))
    /\ IF IsSome(listener) THEN
            /\ listener' = None
            /\ tx_main' = <<Event("closed", -1, <<>>, "")>>
       ELSE
            /\ tx_main' = <<Event("not_listening", -1, <<>>, "")>>
            /\ UNCHANGED listener
    /\ written' = <<>>
    /\ records' = <<>>
    /\ UNCHANGED <<pc, identity, handle, clients, decoders, peer_meta, received_frames,
                   remove_indices, next_uid, shorts, decode_errs,
                   dispatched>>
    /\ UNCHANGED failed
    /\ UNCHANGED <<codecVars, cryptoVars, storeVars, meshVars>>

\* Command::Disconnect(rest)
CmdDisconnect(rest) ==
    /\ Receives(Command("Disconnect", rest, <<>>))
    /\ LET parsed == parse_usize(trim(rest))
       IN  IF IsSome(parsed) THEN
                LET id == Unwrap(parsed)
                IN  IF id < Len(clients) THEN
                        /\ clients' = Remove(clients, id)
                        /\ decoders' = Remove(decoders, id)
                        /\ peer_meta' = Remove(peer_meta, id)
                        /\ tx_main' = <<Event("disconnected", id, <<>>, "")>>
                    ELSE
                        /\ tx_main' = <<Event("disconnect_bad_id", id, <<>>, "")>>
                        /\ UNCHANGED <<clients, decoders, peer_meta>>
           ELSE
                /\ tx_main' = <<Event("disconnect_parse_error", -1, rest, "")>>
                /\ UNCHANGED <<clients, decoders, peer_meta>>
    /\ written' = <<>>
    /\ records' = <<>>
    /\ UNCHANGED <<pc, listener, identity, handle, received_frames, remove_indices,
                   next_uid, shorts, decode_errs, dispatched>>
    /\ UNCHANGED failed
    /\ UNCHANGED <<codecVars, cryptoVars, storeVars, meshVars>>

\* Command::Handle(name)
CmdHandle(name) ==
    /\ Receives(Command("Handle", name, <<>>))
    /\ IF starts_with(name, AT_SIGN) /\ chars_count(name) < HANDLE_LIMIT THEN
            /\ handle' = name
            /\ tx_main' = <<Event("handle_set", -1, name, "")>>
       ELSE
            /\ tx_main' = <<Event("handle_invalid", -1, <<>>, "")>>
            /\ UNCHANGED handle
    /\ written' = <<>>
    /\ records' = <<>>
    /\ UNCHANGED <<pc, listener, identity, clients, decoders, peer_meta,
                   received_frames, remove_indices, next_uid, shorts,
                   decode_errs, dispatched>>
    /\ UNCHANGED failed
    /\ UNCHANGED <<codecVars, cryptoVars, storeVars, meshVars>>

\* the message Command::DM sends, if the identity is loaded
LocalDm_unsigned(body, now, nonce) ==
    IF IsSome(identity)
    THEN Some(build_signed_dm(body, now, nonce, Unwrap(identity).pkcs8,
                              Unwrap(identity).public))
    ELSE Some(dm(body, now))

\* the message Command::DM sends, if the identity is loaded
LocalDm(body, now, nonce) ==
    IF IsSome(identity)
    THEN Some(build_signed_dm(body, now, nonce, Unwrap(identity).pkcs8,
                              Unwrap(identity).public))
    ELSE None

\* Command::DM(to_str, msg_body)
CmdDm(to_str, msg_body) ==
    /\ Receives(Command("DM", to_str, msg_body))
    /\ LET parsed == parse_usize(to_str)
       IN  IF ~IsSome(parsed) THEN
                /\ tx_main' = <<Event("dm_bad_target", -1, to_str, "")>>
                /\ written' = <<>> /\ records' = <<>> /\ UNCHANGED failed
           ELSE IF Unwrap(parsed) >= Len(clients) THEN
                /\ tx_main' = <<Event("dm_out_of_range", Unwrap(parsed), <<>>, "")>>
                /\ written' = <<>> /\ records' = <<>> /\ UNCHANGED failed
           ELSE
                \E now \in Clock, nonce \in Nonces :
                    LET target == Unwrap(parsed)
                        body == handle \o <<COLON, SPACE>> \o msg_body
                        m == LocalDm(body, now, nonce)
                    IN  IF IsSome(m) THEN
                            LET w == WriteAll(target, encode(Unwrap(m)))
                            IN  /\ written' = <<w>>
                                /\ failed' = failed \cup FailedWrites(<<w>>)
                                /\ tx_main' = IF w.ok THEN <<>>
                                              ELSE <<Event("dm_send_error", target, <<>>, "")>>
                                /\ records' =
                                        <<MessageRecord(Unwrap(m).timestamp, "Dm", None,
                                                        Some(target), Some(handle), body,
                                                        Some(TRUE))>>
                        ELSE
                            /\ tx_main' = <<Event("no_key", -1, <<>>, "")>>
                            /\ written' = <<>> /\ records' = <<>> /\ UNCHANGED failed
    /\ UNCHANGED <<pc, listener, identity, handle, clients, decoders, peer_meta,
                   received_frames, remove_indices, next_uid, shorts, decode_errs,
                   dispatched>>
    /\ UNCHANGED <<codecVars, cryptoVars, storeVars, meshVars>>

\* a write loop that leaves out the peers whose meta is None
RECURSIVE ChatWrites_known_peers(_, _, _)
ChatWrites_known_peers(i, frame, acc) ==
    IF i >= Len(clients) THEN acc
    ELSE IF peer_meta[i + 1] = None THEN ChatWrites_known_peers(i + 1, frame, acc)
    ELSE LET w == WriteAll(i, frame)
         IN  ChatWrites_known_peers(i + 1, frame,
                [wr |-> Append(acc.wr, w),
                 tx |-> IF w.ok THEN acc.tx
                        ELSE Append(acc.tx, Event("send_error", i, <<>>, "")),
                 remove |-> IF w.ok THEN acc.remove ELSE Append(acc.remove, i)])

\* the write loop of Command::Chat over the sockets from index i (0-based) on:
\* [wr |-> writes, tx |-> events, remove |-> indices whose write failed]
RECURSIVE ChatWrites(_, _, _)
ChatWrites(i, frame, acc) ==
    IF i >= Len(clients) THEN acc
    ELSE LET w == WriteAll(i, frame)
         IN  ChatWrites(i + 1, frame,
                [wr |-> Append(acc.wr, w),
                 tx |-> IF w.ok THEN acc.tx
                        ELSE Append(acc.tx, Event("send_error", i, <<>>, "")),
                 remove |-> IF w.ok THEN acc.remove ELSE Append(acc.remove, i)])

\* Command::Chat(rest)
CmdChat(rest) ==
    /\ Receives(Command("Chat", rest, <<>>))
    /\ IF IsSome(identity) THEN
            \E now \in Clock :
                LET body == handle \o <<COLON, SPACE>> \o rest
                    m == build_signed_chat(body, now, Unwrap(identity).pkcs8,
                                           Unwrap(identity).public)
                    r == ChatWrites(0, encode(m), [wr |-> <<>>, tx |-> <<>>, remove |-> <<>>])
                IN  /\ written' = r.wr
                    /\ tx_main' = r.tx
                    /\ records' =
                            <<MessageRecord(m.timestamp, "Chat", None, None, Some(handle),
                                            body, Some(TRUE))>>
                    /\ clients' = RemoveRev(clients, r.remove)
                    /\ decoders' = RemoveRev(decoders, r.remove)
                    /\ failed' = failed \cup FailedWrites(r.wr)
                    /\ UNCHANGED peer_meta
       ELSE
            /\ tx_main' = <<Event("no_key", -1, <<>>, "")>>
            /\ written' = <<>> /\ records' = <<>>
            /\ UNCHANGED <<clients, decoders, peer_meta, failed>>
    /\ UNCHANGED <<pc, listener, identity, handle, received_frames, remove_indices,
                   next_uid, shorts, decode_errs, dispatched>>
    /\ UNCHANGED <<codecVars, cryptoVars, storeVars, meshVars>>

\* ---- accept ----

\* the state after accepting k pending connections, one after the other
RECURSIVE AcceptLoop(_, _, _)
AcceptLoop(k, now, acc) ==
    IF k = 0 THEN acc
    ELSE LET cl == Append(acc.cl, Socket(acc.uid))
             id == Len(cl) - 1
         IN  AcceptLoop(k - 1, now,
                [cl |-> cl,
                 de |-> Append(acc.de, NewDecoder),
                 pm |-> Append(acc.pm, None),
                 wr |-> acc.wr \o HelloWrites(cl, id, now),
                 tx |-> Append(acc.tx, Event("accepted", id, <<>>, "")),
                 uid |-> acc.uid + 1])

\* ---- read ----

\* c.read(&mut buf) on a socket: <<"ok", n>>, <<"would_block", 0>> or <<"err", 0>>;
\* short tells whether the read returns only part of what is in flight
SocketRead(sock, short) ==
    IF sock.status = "reset" THEN <<"err", 0>>
    ELSE IF sock.inq # <<>>
         THEN <<"ok", IF short /\ Len(sock.inq) > ShortRead THEN ShortRead
                      ELSE Min(Len(sock.inq), BUF_SIZE)>>
    ELSE IF sock.status = "eof" THEN <<"ok", 0>>
    ELSE <<"would_block", 0>>

\* (idx, m) for each m of msgs
Tagged(idx, msgs) == [j \in 1..Len(msgs) |-> <<idx, msgs[j]>>]

\* the read loop over the sockets from index idx (0-based) on
RECURSIVE ReadLoop(_, _, _)
ReadLoop(idx, short, acc) ==
    IF idx >= Len(acc.cl) THEN acc
    ELSE LET sock == acc.cl[idx + 1]
             r == SocketRead(sock, short[idx + 1])
             n == r[2]
         IN  IF r[1] = "ok" /\ n = 0 THEN
                ReadLoop(idx + 1, short,
                    [acc EXCEPT !.tx = Append(@, Event("client_closed", idx, <<>>, "")),
                                !.rm = Append(@, idx)])
             ELSE IF r[1] = "ok" THEN
                Once(drain(feed(acc.de[idx + 1], SubSeq(sock.inq, 1, n))), LAMBDA d :
                  Once([acc EXCEPT
                            !.cl[idx + 1].inq = SubSeq(sock.inq, n + 1, Len(sock.inq)),
                            !.de[idx + 1] = d.dec,
                            !.rf = IF d.res.ok THEN @ \o Tagged(idx, d.res.msgs) ELSE @,
                            !.errs = IF d.res.ok THEN @
                                     ELSE Append(@, <<sock.uid, d.res.err>>)],
                       LAMBDA next : ReadLoop(idx + 1, short, next)))
             ELSE IF r[1] = "would_block" THEN ReadLoop(idx + 1, short, acc)
             ELSE ReadLoop(idx + 1, short,
                    [acc EXCEPT !.tx = Append(@, Event("recv_error", idx, <<>>, "")),
                                !.rm = Append(@, idx)])

\* The command queue is empty: the accept phase, with k connections pending
\* on the listener, then the read phase over every socket.  The read on
\* socket s, if any, returns only the first ShortRead bytes in flight.
Poll(k) ==
    /\ pc = "cmd"
    /\ rx_thread = <<>>
    /\ pc' = "dispatch"
    /\ steps + k <= MaxSteps
    /\ steps' = steps + k
    /\ (k > 0) => IsSome(listener)
    /\ \E now \in Clock :
        \E a \in {AcceptLoop(k, now, [cl |-> clients, de |-> decoders, pm |-> peer_meta,
                                     wr |-> <<>>, tx |-> <<>>, uid |-> next_uid])} :
            /\ peer_meta' = a.pm
            /\ written' = a.wr
            /\ next_uid' = a.uid
            /\ \E s \in 0..Len(a.cl) :
                /\ s > 0 => (shorts < MaxShort /\ Len(a.cl[s].inq) > ShortRead
                                /\ a.cl[s].status # "reset")
                /\ shorts' = IF s > 0 THEN shorts + 1 ELSE shorts
                /\ \E r \in {ReadLoop(0, [i \in 1..Len(a.cl) |-> i = s],
                                       [cl |-> a.cl, de |-> a.de, rf |-> <<>>,
                                        rm |-> <<>>, tx |-> a.tx,
                                        errs |-> decode_errs])} :
                    /\ clients' = r.cl
                    /\ failed' = failed \cup {a.cl[r.rm[j] + 1].uid : j \in 1..Len(r.rm)}
                    /\ decoders' = r.de
                    /\ received_frames' = r.rf
                    /\ remove_indices' = r.rm
                    /\ tx_main' = r.tx
                    /\ decode_errs' = r.errs
    /\ records' = <<>>
    /\ UNCHANGED <<listener, identity, handle, dispatched>>
    /\ cmd' = None
    /\ UNCHANGED rx_thread
    /\ UNCHANGED <<codecVars, cryptoVars, storeVars, meshVars>>

\* ---- dispatch ----

\* the text shown for a frame
FrameText(msg) ==
    IF msg.kind = DM
    THEN LET p == decrypt_dm_payload(msg.payload)
         IN  IF IsSome(p) THEN from_utf8_lossy(Unwrap(p)) ELSE DM_DECRYPT_ERROR
    ELSE from_utf8_lossy(msg.payload)

\* crypto::verify_ed25519 over the signing bytes of the frame
FrameVerifies(msg) ==
    LET minimal == Message(msg.version, msg.kind, 0, msg.payload, msg.timestamp, None, None)
    IN  verify_ed25519(signing_bytes(minimal), Unwrap(msg.signature),
                       Unwrap(msg.public_key))

\* signed_state after the verification block
SignedState(msg) ==
    IF IsSome(msg.signature) /\ IsSome(msg.public_key) /\ ~FrameVerifies(msg) THEN CROSS
    ELSE IF IsSome(msg.signature) THEN CIRCLE
    ELSE DOT

\* the verification block storing last_valid = true whatever the outcome
MetaUpdate_always_valid(pm, src, msg) ==
    IF IsSome(msg.signature) /\ IsSome(msg.public_key) /\ src < Len(pm)
    THEN LET existing_handle == IF IsSome(pm[src + 1]) THEN Unwrap(pm[src + 1]).handle
                                ELSE None
         IN  [pm EXCEPT ![src + 1] =
                Some(PeerMeta(Unwrap(msg.public_key), TRUE, msg.timestamp,
                              existing_handle))]
    ELSE pm

\* the verification block forgetting the handle the entry held
MetaUpdate_new_handle(pm, src, msg) ==
    IF IsSome(msg.signature) /\ IsSome(msg.public_key) /\ src < Len(pm)
    THEN [pm EXCEPT ![src + 1] =
            Some(PeerMeta(Unwrap(msg.public_key), FrameVerifies(msg), msg.timestamp, None))]
    ELSE pm

\* peer_meta after the verification block: a frame with key and signature
\* rewrites the entry of its source, keeping the handle
MetaUpdate(pm, src, msg) ==
    IF IsSome(msg.signature) /\ IsSome(msg.public_key) /\ src < Len(pm)
    THEN LET existing_handle == IF IsSome(pm[src + 1]) THEN Unwrap(pm[src + 1]).handle
                                ELSE None
         IN  [pm EXCEPT ![src + 1] =
                Some(PeerMeta(Unwrap(msg.public_key), FrameVerifies(msg),
                              msg.timestamp, existing_handle))]
    ELSE pm

\* a relay loop that writes to the source as well
RECURSIVE RelayLoop_to_all(_, _, _, _)
RelayLoop_to_all(idx, src, frame, acc) ==
    IF idx >= Len(clients) THEN acc
    ELSE LET w == WriteAll(idx, frame)
         IN  RelayLoop_to_all(idx + 1, src, frame,
                [acc EXCEPT !.wr = Append(@, w),
                            !.tx = IF w.ok THEN @
                                   ELSE Append(@, Event("relay_error", idx, <<>>, "")),
                            !.rm = IF w.ok THEN @ ELSE Append(@, idx)])

\* the relay loop over the sockets from index idx (0-based) on
RECURSIVE RelayLoop(_, _, _, _)
RelayLoop(idx, src, frame, acc) ==
    IF idx >= Len(clients) THEN acc
    ELSE IF idx = src THEN RelayLoop(idx + 1, src, frame, acc)
    ELSE LET w == WriteAll(idx, frame)
         IN  RelayLoop(idx + 1, src, frame,
                [acc EXCEPT !.wr = Append(@, w),
                            !.tx = IF w.ok THEN @
                                   ELSE Append(@, Event("relay_error", idx, <<>>, "")),
                            !.rm = IF w.ok THEN @ ELSE Append(@, idx)])

\* a DISCONNECT with the given reason written to src, an event, src marked
Reject(acc, src, now, reason, event) ==
    [acc EXCEPT !.wr = Append(@, WriteAll(src, encode(disconnect(now, reason)))),
                !.tx = Append(@, event),
                !.rm = Append(@, src)]

\* the meta stored for an accepted HELLO, its handle left out
HelloMeta_no_handle(msg, peer_handle) ==
    PeerMeta(Unwrap(msg.public_key), TRUE, msg.timestamp, None)

\* the meta stored for an accepted HELLO
HelloMeta(msg, peer_handle) ==
    PeerMeta(Unwrap(msg.public_key), TRUE, msg.timestamp, Some(peer_handle))

\* the HELLO branch; cont tells whether the rest of the loop body is skipped
DispatchHello(acc, src, msg, now) ==
    IF IsSome(msg.public_key) THEN
        IF IsSome(msg.signature) /\ ~FrameVerifies(msg) THEN
            [Reject(acc, src, now, 3, Event("hello_bad_signature", src, <<>>, ""))
                EXCEPT !.cont = TRUE]
        ELSE IF ~IsSome(msg.signature) THEN
            [Reject(acc, src, now, 3, Event("hello_no_signature", src, <<>>, ""))
                EXCEPT !.cont = TRUE]
        ELSE
            LET peer_handle == from_utf8_lossy(msg.payload)
                a == IF src < Len(acc.pm) THEN
                        IF ~valid_handle(peer_handle) THEN
                            Reject(acc, src, now, 2,
                                   Event("hello_bad_handle", src, peer_handle, ""))
                        ELSE [acc EXCEPT !.pm[src + 1] = Some(HelloMeta(msg, peer_handle))]
                     ELSE acc
            IN  [a EXCEPT !.tx = Append(@, Event("hello", src, Unwrap(msg.public_key), ""))]
    ELSE [acc EXCEPT !.tx = Append(@, Event("hello_no_key", src, <<>>, ""))]

\* a DM branch that relays the frame as the CHAT branch does
DispatchDm_relayed(acc, src, msg, txt, signed_state) ==
    RelayLoop(0, src, encode(msg),
        [acc EXCEPT
            !.tx = Append(@, Event("display", -1, txt, signed_state)),
            !.rec = Append(@, MessageRecord(msg.timestamp, "Dm", Some(src), None,
                        IF src < Len(acc.pm) /\ IsSome(acc.pm[src + 1])
                        THEN Unwrap(acc.pm[src + 1]).handle ELSE None,
                        txt, Some(signed_state = CIRCLE)))])

\* the DM branch
DispatchDm(acc, src, msg, txt, signed_state) ==
    [acc EXCEPT
        !.tx = Append(@, Event("display", -1, txt, signed_state)),
        !.rec = Append(@, MessageRecord(msg.timestamp, "Dm", Some(src), None,
                    IF src < Len(acc.pm) /\ IsSome(acc.pm[src + 1])
                    THEN Unwrap(acc.pm[src + 1]).handle ELSE None,
                    txt, Some(signed_state = CIRCLE)))]

\* the CHAT branch: display, record, relay
DispatchChat(acc, src, msg, txt, signed_state) ==
    LET has_handle == /\ src < Len(acc.pm)
                      /\ IsSome(acc.pm[src + 1])
                      /\ IsSome(Unwrap(acc.pm[src + 1]).handle)
        plain == has_handle \/ IsSome(find(txt, COLON))
        a == [acc EXCEPT
                !.tx = Append(@, Event("display", IF plain THEN -1 ELSE src, txt,
                                       signed_state)),
                !.rec = Append(@, MessageRecord(msg.timestamp, "Chat", Some(src), None,
                            IF src < Len(acc.pm) /\ IsSome(acc.pm[src + 1])
                            THEN Unwrap(acc.pm[src + 1]).handle ELSE None,
                            txt, Some(signed_state = CIRCLE)))]
    IN  RelayLoop(0, src, encode(msg), a)

\* the check of the prefix letting a name of exactly 80 codepoints pass
HandleLengthCheck_exclusive(acc, src, txt, now) ==
    LET colon == find(txt, COLON)
        name == IF IsSome(colon) THEN trim(SubSeq(txt, 1, Unwrap(colon))) ELSE <<>>
    IN  IF IsSome(colon) /\ starts_with(name, AT_SIGN) /\ chars_count(name) > HANDLE_LIMIT
        THEN LET a == IF src < Len(clients)
                      THEN [acc EXCEPT !.wr = Append(@, WriteAll(src,
                                                  encode(disconnect(now, 1))))]
                      ELSE acc
             IN  [a EXCEPT !.tx = Append(@, Event("handle_too_long", src,
                                                  <<chars_count(name)>>, "")),
                           !.rm = Append(@, src)]
        ELSE acc

\* the check of the "@...:" prefix that ends the loop body
HandleLengthCheck(acc, src, txt, now) ==
    LET colon == find(txt, COLON)
        name == IF IsSome(colon) THEN trim(SubSeq(txt, 1, Unwrap(colon))) ELSE <<>>
    IN  IF IsSome(colon) /\ starts_with(name, AT_SIGN) /\ chars_count(name) >= HANDLE_LIMIT
        THEN LET a == IF src < Len(clients)
                      THEN [acc EXCEPT !.wr = Append(@, WriteAll(src,
                                                  encode(disconnect(now, 1))))]
                      ELSE acc
             IN  [a EXCEPT !.tx = Append(@, Event("handle_too_long", src,
                                                  <<chars_count(name)>>, "")),
                           !.rm = Append(@, src)]
        ELSE acc

\* the body of the dispatch loop for one (src, msg)
DispatchOne(src, msg, now) ==
    LET txt == FrameText(msg)
        signed_state == SignedState(msg)
        acc0 == [pm |-> MetaUpdate(peer_meta, src, msg), tx |-> tx_main, wr |-> written,
                 rm |-> remove_indices, rec |-> records, cont |-> FALSE]
        acc1 == IF msg.kind = DISCONNECT THEN
                    LET reason == IF IsSome(disconnect_reason_id(msg))
                                  THEN Unwrap(disconnect_reason_id(msg)) ELSE 0
                    IN  [acc0 EXCEPT
                            !.tx = Append(@, Event("peer_disconnect", src,
                                                   <<reason>>, "")),
                            !.rm = Append(@, src)]
                ELSE IF msg.kind = HELLO THEN DispatchHello(acc0, src, msg, now)
                ELSE IF msg.kind = DM THEN DispatchDm(acc0, src, msg, txt, signed_state)
                ELSE DispatchChat(acc0, src, msg, txt, signed_state)
    IN  IF acc1.cont THEN acc1 ELSE HandleLengthCheck(acc1, src, txt, now)

\* one turn of the dispatch loop
Dispatch ==
    /\ pc = "dispatch"
    /\ received_frames # <<>>
    /\ \E now \in Clock :
        LET src == Head(received_frames)[1]
            msg == Head(received_frames)[2]
        IN  \E r \in {DispatchOne(src, msg, now)} :
                /\ peer_meta' = r.pm
                /\ tx_main' = r.tx
                /\ written' = r.wr
                /\ failed' = failed \cup FailedWrites(SubSeq(r.wr, Len(written) + 1, Len(r.wr)))
                /\ remove_indices' = r.rm
                /\ records' = r.rec
                /\ dispatched' = Append(dispatched, <<clients[src + 1].uid, msg>>)
    /\ received_frames' = Tail(received_frames)
    /\ UNCHANGED <<pc, listener, identity, handle, clients, decoders, next_uid, steps,
                   shorts, decode_errs>>
    /\ UNCHANGED <<cmd, rx_thread>>
    /\ UNCHANGED <<codecVars, cryptoVars, storeVars, meshVars>>

\* ---- removal and sleep ----

\* Every received frame has been dispatched: the marked peers are removed and
\* the loop sleeps.  The next iteration starts with nothing observed yet.
Finish ==
    /\ pc = "dispatch"
    /\ received_frames = <<>>
    /\ pc' = "cmd"
    /\ LET list == SortDedup(remove_indices)
       IN  /\ clients' = RemoveRev(clients, list)
           /\ decoders' = RemoveRev(decoders, list)
           /\ peer_meta' = RemoveRev(peer_meta, list)
    /\ remove_indices' = <<>>
    /\ tx_main' = <<>>
    /\ written' = <<>>
    /\ records' = <<>>
    /\ decode_errs' = <<>>
    /\ dispatched' = <<>>
    /\ UNCHANGED <<listener, identity, handle, received_frames, next_uid, steps, shorts>>
    /\ UNCHANGED <<cmd, rx_thread>>
    /\ failed' = {}
    /\ UNCHANGED <<codecVars, cryptoVars, storeVars, meshVars>>

ChatTexts == {<<104, 105>>}     \* "hi"

\* a token of the address "a:1", the same token with its last digit changed,
\* and a string that is no hex
GoodToken == encrypt_conninfo_to_hex(<<97, 58, 49>>, Repeat(5, NONCE_LEN))
TamperedToken ==
    [GoodToken EXCEPT ![Len(GoodToken)] = IF @ = DIGIT_0 THEN DIGIT_0 + 1 ELSE DIGIT_0]
ConnectTokens == {GoodToken, TamperedToken, <<122, 122>>}

\* the ports "1" and "2"
OpenPorts == {<<DIGIT_0 + 1>>, <<DIGIT_0 + 2>>}

\* "0", " 1" and "x"
DisconnectArgs == {<<DIGIT_0>>, <<SPACE, DIGIT_0 + 1>>, <<120>>}

\* "0", "1", " 0" and "x"
DmTargets == {<<DIGIT_0>>, <<DIGIT_0 + 1>>, <<SPACE, DIGIT_0>>, <<120>>}

\* "@n", "n" and a name of 80 codepoints
HandleNames == {<<AT_SIGN, 110>>, <<110>>, Handle80}

Next ==
    \/ \E i \in 1..MaxSteps, f \in RemoteFrames : RemoteSend(i, f)
    \/ \E i \in 1..MaxSteps : RemoteClose(i)
    \/ \E i \in 1..MaxSteps : RemoteReset(i)
    \/ \E i \in 1..MaxSteps : RemoteStall(i)
    \/ \E port \in OpenPorts, b \in BOOLEAN : CmdOpen(port, b)
    \/ \E token \in ConnectTokens, ok \in BOOLEAN : CmdConnect(token, ok)
    \/ CmdClose
    \/ \E rest \in DisconnectArgs : CmdDisconnect(rest)
    \/ \E name \in HandleNames : CmdHandle(name)
    \/ \E rest \in ChatTexts : CmdChat(rest)
    \/ \E to_str \in DmTargets, msg_body \in ChatTexts : CmdDm(to_str, msg_body)
    \/ CmdShutdown
    \/ \E k \in 0..MaxSteps : Poll(k)
    \/ Dispatch
    \/ Finish

Spec == Init /\ [][Next]_vars

-----------------------------------------------------------------------------
(* The loop with its command queue: the controller's sends are steps of    *)
(* their own, and a command waits in rx_thread until the drain loop of an  *)
(* iteration receives it.                                                  *)

\* tx.send(c) by the controller; the send fails once the loop has returned
Enqueue(c) ==
    /\ pc \in {"cmd", "dispatch"}
    /\ steps < MaxSteps
    /\ steps' = steps + 1
    /\ rx_thread' = Append(rx_thread, c)
    /\ UNCHANGED <<pc, listener, identity, handle, clients, decoders, peer_meta,
                   received_frames, remove_indices, tx_main, written, records,
                   next_uid, shorts, decode_errs, dispatched, cmd, failed>>
    /\ UNCHANGED <<codecVars, cryptoVars, storeVars, meshVars>>

\* the commands the controller sends
QueueCommands ==
    {Command("Open", <<DIGIT_0 + 1>>, <<>>), Command("Close", <<>>, <<>>),
     Command("Connect", GoodToken, <<>>), Command("Handle", <<AT_SIGN, 110>>, <<>>),
     Command("Chat", <<104, 105>>, <<>>), Command("Shutdown", <<>>, <<>>)}

\* the frames the remote ends send
QueueFrames == {encode(SignedWith(chat(TextA, 9), KeyA))}

\* one step of the loop on a command taken from the queue
Take ==
    /\ rx_thread # <<>>
    /\ \/ \E port \in OpenPorts, b \in BOOLEAN : CmdOpen(port, b)
       \/ \E token \in ConnectTokens, ok \in BOOLEAN : CmdConnect(token, ok)
       \/ CmdClose
       \/ \E name \in HandleNames : CmdHandle(name)
       \/ \E rest \in ChatTexts : CmdChat(rest)
       \/ CmdShutdown

\* the steps of the loop
Loop ==
    \/ Take
    \/ Poll(0)
    \/ Dispatch
    \/ Finish

QueueNext ==
    \/ \E c \in QueueCommands : Enqueue(c)
    \/ \E i \in 1..MaxSteps, f \in QueueFrames : RemoteSend(i, f)
    \/ \E k \in 1..MaxSteps : Poll(k)
    \/ Loop

\* The loop never blocks: try_recv, accept and read return at once and the
\* sleep is bounded, so the thread keeps taking steps until it returns.
QueueSpec == Init /\ [][QueueNext]_vars /\ WF_vars(Loop)

-----------------------------------------------------------------------------
(* Properties of the network loop.  A step taken with frames left in       *)
(* received_frames is one turn of the dispatch loop; a step taken with the *)
(* dispatch loop done is the end of the iteration.                         *)

DispatchTurn == pc = "dispatch" /\ received_frames # <<>>
IterationEnd == pc = "dispatch" /\ received_frames = <<>>

\* the frame the dispatch loop handles in this turn, and the peer it came from
CurSrc == Head(received_frames)[1]
CurMsg == Head(received_frames)[2]
CurUid == clients[CurSrc + 1].uid

\* what one step adds to the writes, the events, the records and the marks
NewWrites == SubSeq(written', Len(written) + 1, Len(written'))
NewEvents == SubSeq(tx_main', Len(tx_main) + 1, Len(tx_main'))
NewRecords == SubSeq(records', Len(records) + 1, Len(records'))
NewMarks == SubSeq(remove_indices', Len(remove_indices) + 1, Len(remove_indices'))

Elems(q) == {q[j] : j \in 1..Len(q)}

\* w is a write of a DISCONNECT frame with the given reason on the socket uid
DisconnectTo(w, uid, reason) ==
    /\ w.uid = uid
    /\ \E now \in Clock : w.frame = encode(disconnect(now, reason))

\* w is a write of some DISCONNECT frame on the socket uid
AnyDisconnectTo(w, uid) == \E reason \in 0..3 : DisconnectTo(w, uid, reason)

\* the frame carries a public key and a signature, and the signature verifies
\* over the frame's signing bytes with that key
SignedAndVerified(msg) ==
    IsSome(msg.public_key) /\ IsSome(msg.signature) /\ FrameVerifies(msg)

\* the handle rule in the words of the specification
HandleRule(str) == Len(str) >= 1 /\ str[1] = 64 /\ Len(str) < 80

HandleOf(msg) == from_utf8_lossy(msg.payload)

\* a HELLO with a verifying signature and a valid handle
ValidHello(msg) == msg.kind = HELLO /\ SignedAndVerified(msg) /\ HandleRule(HandleOf(msg))

\* a correctly signed HELLO whose payload breaks the handle rule
BadHandleHello(msg) ==
    msg.kind = HELLO /\ SignedAndVerified(msg) /\ ~HandleRule(HandleOf(msg))

\* the peers in the table after the step
UidsAfter == {clients'[i].uid : i \in 1..Len(clients')}

\* the handle field of a meta entry
MetaHandle(meta) == IF IsSome(meta) THEN Unwrap(meta).handle ELSE None

\* C4 (as the specification states it): a peer whose decoder returned an
\* error in the read phase is out of the peer table at the end of that
\* iteration, and an event of the iteration names it.
C4_Original ==
    [][IterationEnd =>
        \A e \in Elems(decode_errs) :
            /\ e[1] \notin UidsAfter
            /\ \E i \in 1..Len(clients), ev \in Elems(tx_main) :
                    clients[i].uid = e[1] /\ ev.id = i - 1]_vars

\* C5 (as the specification states it): the dispatch of a HELLO whose
\* signature is missing or does not verify writes DISCONNECT(3) to its peer
\* and marks it, and the peer is out of the table at the end of the iteration.
UnverifiedHello(msg) == msg.kind = HELLO /\ ~SignedAndVerified(msg)

C5_Original ==
    [][/\ (DispatchTurn /\ UnverifiedHello(CurMsg)) =>
            /\ \E w \in Elems(NewWrites) : DisconnectTo(w, CurUid, 3)
            /\ CurSrc \in Elems(remove_indices')
       /\ IterationEnd =>
            \A d \in Elems(dispatched) : UnverifiedHello(d[2]) => d[1] \notin UidsAfter]_vars

\* C6: the dispatch of a correctly signed HELLO whose payload breaks the
\* handle rule writes DISCONNECT(2) to its peer, leaves the handle of the
\* peer's meta as it was and marks the peer; the peer is out of the table at
\* the end of the iteration; a handle of exactly 79 codepoints that starts
\* with '@' is stored, with no write and no mark.
C6_BadHandleRejected ==
    [][/\ (DispatchTurn /\ BadHandleHello(CurMsg)) =>
            /\ \E w \in Elems(NewWrites) : DisconnectTo(w, CurUid, 2)
            /\ MetaHandle(peer_meta'[CurSrc + 1]) = MetaHandle(peer_meta[CurSrc + 1])
            /\ MetaHandle(peer_meta'[CurSrc + 1]) # Some(HandleOf(CurMsg))
            /\ CurSrc \in Elems(NewMarks)
       /\ (/\ DispatchTurn
           /\ CurMsg.kind = HELLO /\ SignedAndVerified(CurMsg)
           /\ Len(HandleOf(CurMsg)) = 79 /\ HandleOf(CurMsg)[1] = 64) =>
            /\ MetaHandle(peer_meta'[CurSrc + 1]) = Some(HandleOf(CurMsg))
            /\ NewWrites = <<>>
            /\ NewMarks = <<>>
       /\ IterationEnd =>
            \A d \in Elems(dispatched) : BadHandleHello(d[2]) => d[1] \notin UidsAfter]_vars

\* a correctly signed HELLO of 80 codepoints has been dispatched: its peer
\* is marked and a DISCONNECT(2) was written to it
C6_Witness ==
    /\ pc = "dispatch"
    /\ \E d \in Elems(dispatched) :
        /\ BadHandleHello(d[2])
        /\ Len(HandleOf(d[2])) = 80
        /\ \E w \in Elems(written) : DisconnectTo(w, d[1], 2)
        /\ \E i \in 1..Len(clients) : clients[i].uid = d[1] /\ (i - 1) \in Elems(remove_indices)

\* C7: the dispatch of a HELLO with a verifying signature and a valid handle
\* from peer i leaves peer i's meta Some with the frame's public key,
\* last_valid true, the frame's timestamp and the frame's payload as handle;
\* the turn marks no peer for removal and writes nothing to any socket.
C7_HelloStored ==
    [][(DispatchTurn /\ ValidHello(CurMsg)) =>
            /\ peer_meta'[CurSrc + 1] =
                    Some([public_key |-> Unwrap(CurMsg.public_key),
                          last_valid |-> TRUE,
                          last_timestamp |-> CurMsg.timestamp,
                          handle |-> Some(HandleOf(CurMsg))])
            /\ as_bytes(Unwrap(MetaHandle(peer_meta'[CurSrc + 1]))) = CurMsg.payload
            /\ NewMarks = <<>>
            /\ clients' = clients
            /\ \A w \in Elems(NewWrites) : ~AnyDisconnectTo(w, CurUid)]_vars

\* a valid HELLO has been dispatched and its peer, not marked, holds the
\* handle of the frame
C7_Witness ==
    /\ pc = "dispatch"
    /\ \E d \in Elems(dispatched) :
        /\ ValidHello(d[2])
        /\ \E i \in 1..Len(clients) :
            /\ clients[i].uid = d[1]
            /\ (i - 1) \notin Elems(remove_indices)
            /\ MetaHandle(peer_meta[i]) = Some(HandleOf(d[2]))

\* C8 (as the specification states it): a meta that is None stays None
\* through the dispatch of any CHAT or DM frame, signed or not, from its peer.
C8_Original ==
    [][(DispatchTurn /\ CurMsg.kind \in {CHAT, DM} /\ peer_meta[CurSrc + 1] = None) =>
            peer_meta'[CurSrc + 1] = None]_vars

\* C9 (as the specification states it): for a peer not marked for removal
\* whose meta was stored by a valid HELLO, the dispatch of a frame that
\* carries another public key leaves the stored key as it was and marks the
\* peer for removal.
C9_Original ==
    [][(/\ DispatchTurn
        /\ CurSrc \notin Elems(remove_indices)
        /\ IsSome(peer_meta[CurSrc + 1])
        /\ IsSome(Unwrap(peer_meta[CurSrc + 1]).handle)
        /\ IsSome(CurMsg.public_key)
        /\ Unwrap(CurMsg.public_key) # Unwrap(peer_meta[CurSrc + 1]).public_key) =>
            /\ IsSome(peer_meta'[CurSrc + 1])
            /\ Unwrap(peer_meta'[CurSrc + 1]).public_key =
                    Unwrap(peer_meta[CurSrc + 1]).public_key
            /\ CurSrc \in Elems(remove_indices')]_vars

\* C10 (as the specification states it): for a received CHAT or DM the
\* display event carries the verified mark, and the record signed_ok = true,
\* only if the frame has a public key and a signature that verifies; the
\* mark is the unsigned one when the frame has no signature and the invalid
\* one when verification failed.
C10_Original ==
    [][(DispatchTurn /\ CurMsg.kind \in {CHAT, DM}) =>
            /\ \A ev \in Elems(NewEvents) : ev.ev = "display" =>
                    /\ ev.mark = CIRCLE => SignedAndVerified(CurMsg)
                    /\ ~IsSome(CurMsg.signature) => ev.mark = DOT
                    /\ (/\ IsSome(CurMsg.public_key) /\ IsSome(CurMsg.signature)
                        /\ ~FrameVerifies(CurMsg)) => ev.mark = CROSS
            /\ \A rec \in Elems(NewRecords) :
                    rec.signed_ok = Some(TRUE) => SignedAndVerified(CurMsg)]_vars

-----------------------------------------------------------------------------
(* Signature failures, relay and direct messages                           *)

\* the messages a fresh Decoder returns for the bytes of one write
Decoded(frame) == drain(feed(NewDecoder, frame)).res.msgs

\* msg carries a public key and a signature, and the signature does not verify
FailsVerification(msg) ==
    IsSome(msg.public_key) /\ IsSome(msg.signature) /\ ~FrameVerifies(msg)

\* the writes of the step that go to the socket uid
WritesTo(uid) == SelectSeq(NewWrites, LAMBDA w : w.uid = uid)

\* C11: the dispatch of a CHAT whose signature fails verification emits the
\* display event marked as invalid, writes to every other peer a frame that
\* decodes to the message as it was received, public key and signature
\* included, leaves last_valid = false in the meta of the source, and marks
\* the source for removal only if the check of the "@...:" prefix does.
C11_BadSignatureChat ==
    [][(DispatchTurn /\ CurMsg.kind = CHAT /\ FailsVerification(CurMsg)) =>
            /\ \E ev \in Elems(NewEvents) :
                    /\ ev.ev = "display"
                    /\ ev.mark = CROSS
                    /\ ev.text = from_utf8_lossy(CurMsg.payload)
            /\ \A i \in 1..Len(clients) :
                    i - 1 # CurSrc =>
                        \E w \in Elems(NewWrites) :
                            /\ w.uid = clients[i].uid
                            /\ Decoded(w.frame) = <<CurMsg>>
            /\ IsSome(peer_meta'[CurSrc + 1])
            /\ ~Unwrap(peer_meta'[CurSrc + 1]).last_valid
            /\ (CurSrc \in Elems(NewMarks) =>
                    \E ev \in Elems(NewEvents) : ev.ev = "handle_too_long")]_vars

\* a CHAT whose signature fails has been dispatched from a peer that sent no
\* HELLO: it was shown as invalid and relayed to the other peer, the meta of
\* its source holds last_valid = false and no handle, and nothing is marked
C11_Witness ==
    /\ pc = "dispatch"
    /\ remove_indices = <<>>
    /\ Len(clients) = 2
    /\ \E d \in Elems(dispatched), i \in 1..Len(clients) :
        /\ d[2].kind = CHAT /\ FailsVerification(d[2])
        /\ clients[i].uid = d[1]
        /\ IsSome(peer_meta[i])
        /\ ~Unwrap(peer_meta[i]).last_valid
        /\ Unwrap(peer_meta[i]).handle = None
        /\ \E ev \in Elems(tx_main) : ev.ev = "display" /\ ev.mark = CROSS
        /\ \E w \in Elems(written) : w.uid # d[1] /\ Decoded(w.frame) = <<d[2]>>

CommandStep(name) ==
    /\ pc = "cmd" /\ pc' = "cmd"
    /\ steps' = steps + 1
    /\ IsSome(cmd')
    /\ Unwrap(cmd').name = name

\* the decimal form of a number below ten
Decimal(n) == <<DIGIT_0 + n>>

C14_Original ==
    [][(DispatchTurn /\ CurMsg.kind = DM /\ FailsVerification(CurMsg)) =>
            /\ NewEvents = <<>>
            /\ NewRecords = <<>>]_vars

-----------------------------------------------------------------------------
(* The handle prefix of a text, DISCONNECT frames                          *)

\* the text of a CHAT frame
ChatText(msg) == from_utf8_lossy(msg.payload)

\* the part of str before its first ':', or the empty string if it has none
Prefix(str) == IF IsSome(find(str, COLON)) THEN SubSeq(str, 1, Unwrap(find(str, COLON)))
               ELSE <<>>

\* the text begins with '@' and the part before its first ':' has n codepoints or more
LongPrefix(str, n) == str # <<>> /\ str[1] = AT_SIGN /\ Len(Prefix(str)) >= n

\* the part before the first ':', whitespace at its ends removed, begins
\* with '@' and has n codepoints or more
LongTrimmedPrefix(str, n) ==
    /\ trim(Prefix(str)) # <<>>
    /\ trim(Prefix(str))[1] = AT_SIGN
    /\ Len(trim(Prefix(str))) >= n

\* C15 (as the specification states it): the dispatch of a CHAT whose text
\* begins with '@' and has 80 codepoints or more before its first ':'
\* writes DISCONNECT(1) to the source and marks it.
C15_Original ==
    [][(DispatchTurn /\ CurMsg.kind = CHAT /\ LongPrefix(ChatText(CurMsg), 80)) =>
            /\ \E w \in Elems(NewWrites) : DisconnectTo(w, CurUid, 1)
            /\ CurSrc \in Elems(NewMarks)]_vars

\* C15: the dispatch of a CHAT whose text before the first ':', with the
\* whitespace at its ends removed, begins with '@' and has 80 codepoints or
\* more writes DISCONNECT(1) to the source, emits an event with the source
\* id and the number of codepoints, and marks the source, which is out of
\* the table after the removal that ends the iteration; the dispatch of any
\* other CHAT writes nothing to the source and does not mark it.
C15_LongHandlePrefix ==
    [][/\ (DispatchTurn /\ CurMsg.kind = CHAT /\ LongTrimmedPrefix(ChatText(CurMsg), 80)) =>
            /\ \E w \in Elems(NewWrites) : DisconnectTo(w, CurUid, 1)
            /\ \E ev \in Elems(NewEvents) :
                    /\ ev.ev = "handle_too_long"
                    /\ ev.id = CurSrc
                    /\ ev.text = <<Len(trim(Prefix(ChatText(CurMsg))))>>
            /\ CurSrc \in Elems(NewMarks)
       /\ (DispatchTurn /\ CurMsg.kind = CHAT /\ ~LongTrimmedPrefix(ChatText(CurMsg), 80)) =>
            /\ WritesTo(CurUid) = <<>>
            /\ CurSrc \notin Elems(NewMarks)
       /\ IterationEnd =>
            \A d \in Elems(dispatched) :
                (d[2].kind = CHAT /\ LongTrimmedPrefix(ChatText(d[2]), 80)) =>
                    d[1] \notin UidsAfter]_vars

\* a CHAT with '@' and 79 more codepoints before its ':' has been
\* dispatched: DISCONNECT(1) was written to its source, which is marked
C15_Witness ==
    /\ pc = "dispatch"
    /\ \E d \in Elems(dispatched) :
        /\ d[2].kind = CHAT
        /\ Len(trim(Prefix(ChatText(d[2])))) = 80
        /\ ChatText(d[2])[1] = AT_SIGN
        /\ \E w \in Elems(written) : DisconnectTo(w, d[1], 1)
        /\ \E ev \in Elems(tx_main) : ev.ev = "handle_too_long" /\ ev.text = <<80>>
        /\ \E i \in 1..Len(clients) : clients[i].uid = d[1] /\ (i - 1) \in Elems(remove_indices)

\* C16 (as the specification states it): the dispatch of a DISCONNECT from
\* peer i emits an event with i and the reason, the big-endian value of the
\* first four payload bytes or 0 if there are fewer, marks peer i, which is
\* out of the table after the removal that ends the iteration, and writes
\* nothing to any socket.
C16_Original ==
    [][/\ (DispatchTurn /\ CurMsg.kind = DISCONNECT) =>
            /\ \E ev \in Elems(NewEvents) :
                    /\ ev.ev = "peer_disconnect"
                    /\ ev.id = CurSrc
                    /\ ev.text = IF Len(CurMsg.payload) < 4 THEN <<0>>
                                 ELSE <<from_be_bytes(SubSeq(CurMsg.payload, 1, 4))>>
            /\ CurSrc \in Elems(NewMarks)
            /\ NewWrites = <<>>
       /\ IterationEnd =>
            \A d \in Elems(dispatched) : d[2].kind = DISCONNECT => d[1] \notin UidsAfter]_vars

-----------------------------------------------------------------------------
(* Commands                                                                *)

TablesUnchanged ==
    /\ clients' = clients
    /\ decoders' = decoders
    /\ peer_meta' = peer_meta
    /\ listener' = listener
    /\ handle' = handle

\* C18: with no identity loaded, the handling of a Chat or DM command emits
\* one event, calls write_all on no socket, stores no record and leaves the
\* peer table, the listener and the local handle as they were.
C18_NoIdentity ==
    [][((CommandStep("Chat") \/ CommandStep("DM")) /\ identity = None) =>
            /\ Len(tx_main') = 1
            /\ written' = <<>>
            /\ records' = <<>>
            /\ TablesUnchanged]_vars

\* the command DM("0", "hi") has been handled with one peer in the table and
\* no identity: one event and no write
C18_Witness ==
    /\ pc = "cmd"
    /\ identity = None
    /\ cmd = Some(Command("DM", Decimal(0), <<104, 105>>))
    /\ Len(clients) = 1
    /\ Len(tx_main) = 1
    /\ tx_main[1].ev = "no_key"
    /\ written = <<>>
    /\ records = <<>>

\* str is a decimal number: digits, after an optional '+'
IsNumber(str) ==
    \E k \in 0..1 :
        /\ Len(str) > k
        /\ k = 1 => str[1] = PLUS
        /\ \A i \in (k + 1)..Len(str) : str[i] \in DIGIT_0..DIGIT_9

\* the number that str, a decimal number, denotes
NumberOf(str) == DecimalValue(SelectSeq(str, LAMBDA c : c # PLUS))

\* the command just handled failed its parsing or its validation
FailingCommand ==
    \/ /\ CommandStep("Disconnect")
       /\ (IsNumber(trim(Unwrap(cmd').a)) => NumberOf(trim(Unwrap(cmd').a)) >= Len(clients))
    \/ /\ CommandStep("DM")
       /\ (IsNumber(Unwrap(cmd').a) => NumberOf(Unwrap(cmd').a) >= Len(clients))
    \/ /\ CommandStep("Handle")
       /\ ~HandleRule(Unwrap(cmd').a)
    \/ /\ CommandStep("Connect")
       /\ decrypt_conninfo_from_hex(Unwrap(cmd').a) = None

\* C19: a Disconnect whose argument, trimmed, is no number or no index of
\* the table, a DM whose target is no number or no index of the table, a
\* Handle whose name breaks the handle rule and a Connect whose token does
\* not decrypt emit exactly one event each, call write_all on no socket,
\* store no record and leave sockets, decoders, meta, listener and local
\* handle as they were.
C19_FailingCommands ==
    [][FailingCommand =>
            /\ Len(tx_main') = 1
            /\ written' = <<>>
            /\ records' = <<>>
            /\ next_uid' = next_uid
            /\ TablesUnchanged]_vars

\* the command DM("x", "hi") has been handled with an identity loaded and
\* one peer in the table: one event, no write, no record
C19_Witness ==
    /\ pc = "cmd"
    /\ IsSome(identity)
    /\ cmd = Some(Command("DM", <<120>>, <<104, 105>>))
    /\ Len(clients) = 1
    /\ Len(tx_main) = 1
    /\ tx_main[1].ev = "dm_bad_target"
    /\ written = <<>>
    /\ records = <<>>

-----------------------------------------------------------------------------
(* Socket failures                                                          *)

\* the accept and read phases
PollStep == pc = "cmd" /\ pc' = "dispatch"

\* C20 (as the specification states it): a peer on whose socket a read
\* returned 0 or an error other than WouldBlock, or a write failed, in an
\* iteration is out of the table after the removal that ends the iteration;
\* a read that returns WouldBlock does not mark the peer.
C20_Original ==
    [][/\ IterationEnd => \A uid \in failed : uid \notin UidsAfter
       /\ PollStep =>
            \A i \in 1..Len(clients) :
                SocketRead(clients[i], FALSE)[1] = "would_block" =>
                    (i - 1) \notin Elems(remove_indices')]_vars

-----------------------------------------------------------------------------
(* The listener                                                            *)

\* the step changes no socket, decoder or meta, nor the local handle
PeersUnchanged ==
    /\ clients' = clients
    /\ decoders' = decoders
    /\ peer_meta' = peer_meta
    /\ handle' = handle
    /\ next_uid' = next_uid

\* C21: the handling of an Open command emits one event, calls write_all on
\* no socket and leaves every peer as it was; when a listener exists it is
\* still the same listener afterwards, and when none exists the listener is
\* afterwards absent (the bind failed) or bound to the port of the command.
C21_OneListener ==
    [][CommandStep("Open") =>
            /\ Len(tx_main') = 1
            /\ written' = <<>>
            /\ records' = <<>>
            /\ PeersUnchanged
            /\ IsSome(listener) => listener' = listener
            /\ ~IsSome(listener) => listener' \in {None, Some(Unwrap(cmd').a)}]_vars

\* Open("2") has been handled while listening on port "1", with one peer
\* accepted before: the listener is still the one of port "1"
C21_Witness ==
    /\ pc = "cmd"
    /\ cmd = Some(Command("Open", <<DIGIT_0 + 2>>, <<>>))
    /\ listener = Some(<<DIGIT_0 + 1>>)
    /\ Len(clients) = 1
    /\ Len(tx_main) = 1
    /\ tx_main[1].ev = "already_listening"

\* C22: the handling of a Close command leaves no listener, emits one event,
\* writes to no socket and changes no socket, decoder, meta or handle.  While
\* there is no listener the accept phase adds no peer and the read phase
\* still takes the bytes in flight from every socket that has not failed, and
\* a listener appears again only in the handling of an Open command.
C22_CloseOnlyListener ==
    [][/\ CommandStep("Close") =>
            /\ listener' = None
            /\ Len(tx_main') = 1
            /\ written' = <<>>
            /\ records' = <<>>
            /\ PeersUnchanged
       /\ (PollStep /\ ~IsSome(listener)) =>
            /\ next_uid' = next_uid
            /\ Len(clients') = Len(clients)
            /\ \A i \in 1..Len(clients) :
                    (clients[i].status # "reset" /\ clients[i].inq # <<>>)
                        => Len(clients'[i].inq) < Len(clients[i].inq)
       /\ (~IsSome(listener) /\ IsSome(listener')) => CommandStep("Open")]_vars

\* Close has been handled while listening, with one peer in the table: the
\* listener is gone and the peer is still there
C22_Witness ==
    /\ pc = "cmd"
    /\ cmd = Some(Command("Close", <<>>, <<>>))
    /\ listener = None
    /\ Len(tx_main) = 1
    /\ tx_main[1].ev = "closed"
    /\ Len(clients) = 1
    /\ Len(decoders) = 1
    /\ Len(peer_meta) = 1

-----------------------------------------------------------------------------
(* The command queue                                                       *)

\* the drain loop takes the command at the head of the queue
Taken == pc = "cmd" /\ rx_thread # <<>> /\ rx_thread' = Tail(rx_thread)

ShutdownQueued == \E j \in 1..Len(rx_thread) : rx_thread[j].name = "Shutdown"

\* C23: the step that takes a Shutdown from the queue emits one event, writes
\* to no socket and ends the loop; once the loop has ended no step changes
\* the queue, the events, the writes, the records, the peers or the
\* listener, so no command left in the queue is handled and no accept, read
\* or dispatch runs.  With the loop thread scheduled fairly, a Shutdown in the
\* queue leads to the end of the loop.
C23_Shutdown ==
    /\ [][/\ (Taken /\ Head(rx_thread).name = "Shutdown") =>
                /\ pc' = "done"
                /\ Len(tx_main') = 1
                /\ written' = <<>>
                /\ records' = <<>>
                /\ PeersUnchanged
          /\ pc = "done" => UNCHANGED netVars]_vars
    /\ (ShutdownQueued ~> pc = "done")

\* the loop has returned on a Shutdown with a peer connected and a Chat
\* command still in the queue: one event and no write
C23_Witness ==
    /\ pc = "done"
    /\ cmd = Some(Command("Shutdown", <<>>, <<>>))
    /\ Len(clients) = 1
    /\ Len(rx_thread) = 1
    /\ rx_thread[1].name = "Chat"
    /\ Len(tx_main) = 1
    /\ written = <<>>

\* C24: a step that takes a command from the queue takes the one at its
\* head, the command sent first, and handles it; a step that adds a command
\* puts it at the back, changes nothing in front of it and sends no event;
\* and the accept and read phase starts only on an empty queue.  So the
\* commands are handled, and their events sent, in the order the commands
\* were sent.
C24_CommandOrder ==
    [][/\ Len(rx_thread') < Len(rx_thread) =>
            /\ pc = "cmd"
            /\ rx_thread' = Tail(rx_thread)
            /\ cmd' = Some(Head(rx_thread))
       /\ Len(rx_thread') > Len(rx_thread) =>
            /\ Len(rx_thread') = Len(rx_thread) + 1
            /\ SubSeq(rx_thread', 1, Len(rx_thread)) = rx_thread
            /\ UNCHANGED <<cmd, tx_main>>
       /\ (pc = "cmd" /\ pc' = "dispatch") => rx_thread = <<>>]_vars

\* Handle("@n") and Chat("hi") were sent in this order, with an identity
\* loaded: the first has been handled, its event is out, the second waits
C24_Witness ==
    /\ pc = "cmd"
    /\ IsSome(identity)
    /\ cmd = Some(Command("Handle", <<AT_SIGN, 110>>, <<>>))
    /\ handle = <<AT_SIGN, 110>>
    /\ Len(tx_main) = 1
    /\ tx_main[1].ev = "handle_set"
    /\ rx_thread = <<Command("Chat", <<104, 105>>, <<>>)>>

-----------------------------------------------------------------------------
(* Signing and connection tokens: a message is built and signed, altered   *)
(* on its way and verified; a connection string is sealed into a token,    *)
(* the token is damaged or not, and opened.                                *)

\* what build_signed_chat and build_signed_dm are given
SignMsgs == {chat(<<104>>, 9), [dm(<<>>, 258) EXCEPT !.payload = <<1, 0>>]}
SignKeys == {KeyA, KeyB}

\* values a field may be changed to
AlterVersions == {1, 2}
AlterKinds == {CHAT, DM}
AlterTimes == {9, 258, 265}
AlterPayloads == {<<>>, <<104>>, <<105>>, <<104, 0>>, <<1, 0>>}
AlterAttenuations == {0, 1, MAX_ATTENUATION}

CryptoInit ==
    /\ k_pc = "build"
    /\ k_built = None
    /\ k_seen = None
    /\ k_verdict = None
    /\ k_conn = None
    /\ k_token = None
    /\ k_damage = "none"
    /\ k_opened = None
    /\ CodecIdle
    /\ NetIdle
    /\ StoreIdle
    /\ MeshIdle

\* build_signed_chat / build_signed_dm: the message and its signature over
\* signing_bytes
Sign(m, key) ==
    /\ k_pc = "build"
    /\ k_built' = Some(SignedWith(m, key))
    /\ k_seen' = Some(SignedWith(m, key))
    /\ k_pc' = "alter"
    /\ UNCHANGED <<k_verdict, k_conn, k_token, k_damage, k_opened>>
    /\ UNCHANGED <<codecVars, netVars, storeVars, meshVars>>

\* one field of the message in flight is changed
Alter(m) ==
    /\ k_pc = "alter"
    /\ m # Unwrap(k_seen)
    /\ k_seen' = Some(m)
    /\ UNCHANGED <<k_pc, k_built, k_verdict, k_conn, k_token, k_damage, k_opened>>
    /\ UNCHANGED <<codecVars, netVars, storeVars, meshVars>>

AlterVersion == k_pc = "alter" /\ \E v \in AlterVersions : Alter([Unwrap(k_seen) EXCEPT !.version = v])
AlterKind == k_pc = "alter" /\ \E k \in AlterKinds : Alter([Unwrap(k_seen) EXCEPT !.kind = k])
AlterTimestamp == k_pc = "alter" /\ \E ts \in AlterTimes : Alter([Unwrap(k_seen) EXCEPT !.timestamp = ts])
AlterPayload == k_pc = "alter" /\ \E p \in AlterPayloads : Alter([Unwrap(k_seen) EXCEPT !.payload = p])
AlterKey == k_pc = "alter" /\ \E key \in SignKeys : Alter([Unwrap(k_seen) EXCEPT !.public_key = Some(key.public)])
\* the message in flight is signed again by some key, its public key left
AlterSignature ==
    k_pc = "alter" /\ \E key \in SignKeys :
        Alter([Unwrap(k_seen) EXCEPT
                 !.signature = Some(sign_ed25519(signing_bytes(Unwrap(k_seen)), key.pkcs8))])

\* the message is encoded with another attenuation and the receiving peer
\* decodes it
Reencode(a) ==
    /\ k_pc = "alter"
    /\ \E r \in {drain(feed(NewDecoder, encode([Unwrap(k_seen) EXCEPT !.attenuation = a])))} :
        /\ r.res.ok
        /\ Len(r.res.msgs) = 1
        /\ r.res.msgs[1] # Unwrap(k_seen)
        /\ k_seen' = Some(r.res.msgs[1])
    /\ UNCHANGED <<k_pc, k_built, k_verdict, k_conn, k_token, k_damage, k_opened>>
    /\ UNCHANGED <<codecVars, netVars, storeVars, meshVars>>

\* the verification block of the loop, on a frame that carries both a key
\* and a signature
Verify ==
    /\ k_pc = "alter"
    /\ IsSome(Unwrap(k_seen).signature)
    /\ IsSome(Unwrap(k_seen).public_key)
    /\ k_verdict' = Some(FrameVerifies(Unwrap(k_seen)))
    /\ k_pc' = "verified"
    /\ UNCHANGED <<k_built, k_seen, k_conn, k_token, k_damage, k_opened>>
    /\ UNCHANGED <<codecVars, netVars, storeVars, meshVars>>

\* connection strings: "", "a:1" and one with a two-byte character
SealConns == {<<>>, <<97, 58, 49>>, <<233, 58, 49>>}
\* nonces the random generator returns
SealNonces == {Repeat(3, NONCE_LEN), Repeat(250, NONCE_LEN)}

Seal(conn, nonce) ==
    /\ k_pc = "build"
    /\ k_conn' = Some(conn)
    /\ k_token' = Some(encrypt_conninfo_to_hex(conn, nonce))
    /\ k_pc' = "token"
    /\ UNCHANGED <<k_built, k_seen, k_verdict, k_damage, k_opened>>
    /\ UNCHANGED <<codecVars, netVars, storeVars, meshVars>>

\* the token reaches the other user changed
Damage(how, token) ==
    /\ k_pc = "token"
    /\ k_damage = "none"
    /\ k_token' = Some(token)
    /\ k_damage' = how
    /\ UNCHANGED <<k_pc, k_built, k_seen, k_verdict, k_conn, k_opened>>
    /\ UNCHANGED <<codecVars, netVars, storeVars, meshVars>>

\* the last character is lost
DamageOdd == k_pc = "token" /\ Damage("odd", SubSeq(Unwrap(k_token), 1, Len(Unwrap(k_token)) - 1))
\* a character becomes 'g' or a two-byte character
DamageDigit ==
    k_pc = "token" /\ \E i \in {1, Len(Unwrap(k_token))}, c \in {103, 233} :
        Damage("nonhex", [Unwrap(k_token) EXCEPT ![i] = c])
\* only the first 27 bytes arrive, or nothing
DamageShort ==
    k_pc = "token" /\ \E n \in {0, 2 * (NONCE_LEN + TAG_LEN) - 2} :
        Damage("short", SubSeq(Unwrap(k_token), 1, n))
\* a digit becomes another digit
DamageFlip ==
    k_pc = "token" /\ \E i \in {1, Len(Unwrap(k_token))} :
        Damage("flip", [Unwrap(k_token) EXCEPT ![i] = IF @ = DIGIT_0 THEN DIGIT_0 + 1 ELSE DIGIT_0])

Open ==
    /\ k_pc = "token"
    /\ k_opened' = Some(decrypt_conninfo_from_hex(Unwrap(k_token)))
    /\ k_pc' = "opened"
    /\ UNCHANGED <<k_built, k_seen, k_verdict, k_conn, k_token, k_damage>>
    /\ UNCHANGED <<codecVars, netVars, storeVars, meshVars>>

CryptoNext ==
    \/ \E m \in SignMsgs, key \in SignKeys : Sign(m, key)
    \/ AlterVersion
    \/ AlterKind
    \/ AlterTimestamp
    \/ AlterPayload
    \/ AlterKey
    \/ AlterSignature
    \/ \E a \in AlterAttenuations : Reencode(a)
    \/ Verify
    \/ \E conn \in SealConns, nonce \in SealNonces : Seal(conn, nonce)
    \/ DamageOdd
    \/ DamageDigit
    \/ DamageShort
    \/ DamageFlip
    \/ Open

CryptoSpec == CryptoInit /\ [][CryptoNext]_vars

\* the fields the signature covers
Covered(m) == <<m.version, m.kind, m.timestamp, m.payload>>

IsHexDigit(b) == (b >= 48 /\ b <= 57) \/ (b >= 65 /\ b <= 70) \/ (b >= 97 /\ b <= 102)

\* the string is an even number of bytes, all of them hex digits
EvenHex(str) ==
    /\ Len(as_bytes(str)) % 2 = 0
    /\ \A i \in 1..Len(as_bytes(str)) : IsHexDigit(as_bytes(str)[i])

\* C26: a token that arrives as encrypt_conninfo_to_hex made it opens to the
\* connection string it was made from, whatever the string and the nonce;
\* a token that is not an even number of hex digits, or that holds fewer
\* than 28 bytes, gives an error.
C26_TokenRoundTrip ==
    k_pc = "opened"
        => /\ k_damage = "none" => Unwrap(k_opened) = k_conn
           /\ (~EvenHex(Unwrap(k_token))
                 \/ Len(as_bytes(Unwrap(k_token))) \div 2 < NONCE_LEN + TAG_LEN)
                => Unwrap(k_opened) = None

\* the token of a string with a two-byte character, sealed under a nonce
\* that makes the cipher bytes wrap, opened to the same string
C26_Witness ==
    /\ k_pc = "opened"
    /\ k_damage = "none"
    /\ k_conn = Some(<<233, 58, 49>>)
    /\ SubSeq(Unwrap(k_token), 1, 2) = <<102, 97>>
    /\ Unwrap(k_opened) = k_conn

-----------------------------------------------------------------------------
(* The message log (storage.rs).  A ts_millis is kept in two parts,        *)
(* [days, ms], for days * MS_PER_DAY + ms: whole days since 1970-01-01 and *)
(* the milliseconds into the day.                                          *)

MS_PER_DAY == 86400000
NEWLINE == 10
BAR == 124

Millis(days, ms) == [days |-> days, ms |-> ms]

\* u64::to_string / format!("{}", n)
RECURSIVE to_string(_)
to_string(n) ==
    IF n < 10 THEN <<DIGIT_0 + n>>
    ELSE Append(to_string(n \div 10), DIGIT_0 + (n % 10))

\* format!("{:0w$}", n): zeros in front up to w characters, never cut
ZeroPad(n, w) ==
    LET digits == to_string(n)
    IN  IF Len(digits) >= w THEN digits ELSE Repeat(DIGIT_0, w - Len(digits)) \o digits

\* year, month and day of the day that is z days after 1970-01-01, in the
\* proleptic Gregorian calendar chrono uses
CivilFromDays(z) ==
    LET shifted == z + 719468
        era == shifted \div 146097
        doe == shifted - era * 146097
        yoe == (doe - doe \div 1460 + doe \div 36524 - doe \div 146096) \div 365
        doy == doe - (365 * yoe + yoe \div 4 - yoe \div 100)
        mp == (5 * doy + 2) \div 153
        d == doy - (153 * mp + 2) \div 5 + 1
        m == IF mp < 10 THEN mp + 3 ELSE mp - 9
        y == yoe + era * 400 + (IF m <= 2 THEN 1 ELSE 0)
    IN  [year |-> y, month |-> m, day |-> d]

\* the last day of chrono's calendar, 31 December 262143, in days after
\* 1970-01-01: Utc.timestamp_opt(secs, nanos).single() is None for a time
\* after it, and the unwrap() of date_string panics
CHRONO_MAX_DAYS == 95026601
InCalendar(ts_millis) == ts_millis.days <= CHRONO_MAX_DAYS

\* date_string: format!("{:04}{:02}{:02}", year, month, day) of the UTC time
\* ts_millis / 1000 seconds after the epoch
date_string(ts_millis) ==
    LET dt == CivilFromDays(ts_millis.days)
    IN  ZeroPad(dt.year, 4) \o ZeroPad(dt.month, 2) \o ZeroPad(dt.day, 2)

encode_count(n) == to_be_bytes(n, 8)

decode_count(b) == IF Len(b) = 8 THEN from_be_bytes(b) ELSE 0

\* values of the tree: bytes, or the postcard bytes of a record
Bytes(b) == [postcard |-> None, bytes |-> b]
Postcard(rec) == [postcard |-> Some(rec), bytes |-> <<>>]

\* db.get(key).ok().flatten()
Get(tree, key) == IF key \in DOMAIN tree THEN Some(tree[key]) ELSE None

\* db.insert(key, value)
Insert(tree, key, value) ==
    [k \in DOMAIN tree \cup {key} |-> IF k = key THEN value ELSE tree[k]]

EmptyTree == [k \in {} |-> Bytes(<<>>)]

CntKey(date) == <<99, 110, 116, COLON>> \o date       \* "cnt:" date
IdxKey == <<105, 110, 100, 101, 120>>                  \* "index"
MsgKey(date, i) == date \o to_string(i)

\* the counter of a day: 0 when the key is absent
Count(tree, date) ==
    IF IsSome(Get(tree, CntKey(date)))
    THEN decode_count(Unwrap(Get(tree, CntKey(date))).bytes)
    ELSE 0

\* str::split('\n') without the empty pieces
RECURSIVE SplitLines(_)
SplitLines(str) ==
    IF str = <<>> THEN <<>>
    ELSE LET ends == {i \in 1..Len(str) : str[i] = NEWLINE} \cup {Len(str) + 1}
             e == CHOOSE i \in ends : \A j \in ends : i <= j
             piece == SubSeq(str, 1, e - 1)
             rest == SplitLines(SubSeq(str, e + 1, Len(str)))
         IN  IF piece = <<>> THEN rest ELSE <<piece>> \o rest

\* [String]::join("\n")
RECURSIVE JoinLines(_)
JoinLines(lines) ==
    IF lines = <<>> THEN <<>>
    ELSE IF Len(lines) = 1 THEN lines[1]
    ELSE lines[1] \o <<NEWLINE>> \o JoinLines(Tail(lines))

\* the order of String: byte by byte, a proper prefix first
StrLess(a, b) ==
    \E i \in 1..(Len(b)) :
        /\ \A j \in 1..(i - 1) : j <= Len(a) /\ a[j] = b[j]
        /\ i - 1 <= Len(a)
        /\ (i > Len(a) \/ a[i] < b[i])

\* Vec<String>::sort()
RECURSIVE SortStrings(_)
SortStrings(list) ==
    IF list = <<>> THEN <<>>
    ELSE LET S == {list[i] : i \in 1..Len(list)}
             m == CHOOSE x \in S : \A y \in S : x = y \/ StrLess(x, y)
             at == CHOOSE i \in 1..Len(list) : list[i] = m
         IN  <<m>> \o SortStrings(Remove(list, at - 1))

\* the dates of the index key
Dates(tree) ==
    IF IsSome(Get(tree, IdxKey)) THEN SplitLines(Unwrap(Get(tree, IdxKey)).bytes)
    ELSE <<>>

list_dates(tree) == Dates(tree)

\* the record load_structured_day makes of a value in the old format
LegacyRecord(val) ==
    LET pos == find(val, BAR)
    IN  IF ~IsSome(pos) THEN None
        ELSE LET parsed == parse_usize(SubSeq(val, 1, Unwrap(pos)))
                 ts == IF IsSome(parsed) THEN Unwrap(parsed) ELSE 0
             IN  Some(MessageRecord(Millis(ts \div MS_PER_DAY, ts % MS_PER_DAY), "System",
                                    None, None, None,
                                    SubSeq(val, Unwrap(pos) + 2, Len(val)), None))

\* the loop of load_structured_day from index i
RECURSIVE LoadFrom(_, _, _, _)
LoadFrom(tree, date, i, total) ==
    IF i >= total THEN <<>>
    ELSE LET val == Get(tree, MsgKey(date, i))
             rest == LoadFrom(tree, date, i + 1, total)
         IN  IF ~IsSome(val) THEN rest
             ELSE IF IsSome(Unwrap(val).postcard)
                  THEN <<Unwrap(Unwrap(val).postcard)>> \o rest
             ELSE IF IsSome(LegacyRecord(Unwrap(val).bytes))
                  THEN <<Unwrap(LegacyRecord(Unwrap(val).bytes))>> \o rest
             ELSE rest

load_structured_day(tree, date) == LoadFrom(tree, date, 0, Count(tree, date))

\* a call that no other call interleaves with: the message, the counter,
\* and for the first record of a day the index
StoreWhole(tree, date, value) ==
    LET current == Count(tree, date)
        with_msg == Insert(tree, MsgKey(date, current), value)
        with_cnt == Insert(with_msg, CntKey(date), Bytes(encode_count(current + 1)))
        dates == Dates(with_cnt)
    IN  IF current = 0 /\ \A n \in 1..Len(dates) : dates[n] # date
        THEN Insert(with_cnt, IdxKey, Bytes(JoinLines(SortStrings(Append(dates, date)))))
        ELSE with_cnt

MaxAppends == 3      \* calls of store_structured and append_message in a run
Threads == {1, 2}

\* store_structured(rec)
StoreCall(rec) ==
    [ts_millis |-> rec.ts_millis, value |-> Postcard(rec), loads_as |-> Some(rec)]

\* append_message(ts_millis, text): the value is "ts|text"
AppendCall(ts_millis, text) ==
    LET value == to_string(ts_millis.days * MS_PER_DAY + ts_millis.ms) \o <<BAR>> \o as_bytes(text)
    IN  [ts_millis |-> ts_millis, value |-> Bytes(value), loads_as |-> LegacyRecord(value)]

ChatRecord(ts_millis, text) ==
    MessageRecord(ts_millis, "Chat", Some(0), None, None, text, Some(TRUE))

DAY_2025_11_08 == 20400
DAY_19700_10_11 == 6476033
DAY_FAR == 2000000000     \* a day some 5 million years on, far beyond the calendar

\* the calls of a run: two records of 1970-01-01, one of 2025-11-08, one of
\* the year 19700, one with a timestamp beyond the calendar, and one line in
\* the old format
LogCalls ==
    {StoreCall(ChatRecord(Millis(0, 1), <<97>>)),
     StoreCall(ChatRecord(Millis(0, 2), <<98>>)),
     StoreCall(ChatRecord(Millis(DAY_2025_11_08, 0), <<97>>)),
     StoreCall(ChatRecord(Millis(DAY_19700_10_11, 0), <<97>>)),
     StoreCall(ChatRecord(Millis(DAY_FAR, 0), <<97>>)),
     AppendCall(Millis(0, 5), <<99>>)}

\* what the history keeps of a call that returned
Entry(c, date, current) ==
    [days |-> c.ts_millis.days, date |-> date, key |-> MsgKey(date, current),
     value |-> c.value, loads_as |-> c.loads_as]

IdleCall == [pc |-> "idle", arg |-> <<>>, date |-> <<>>, current |-> 0, dates |-> <<>>]

\* a tree that earlier runs left: n records of 1970-01-01
RECURSIVE Earlier(_)
Earlier(n) ==
    IF n = 0 THEN [tree |-> EmptyTree, appended |-> <<>>]
    ELSE LET before == Earlier(n - 1)
             c == StoreCall(ChatRecord(Millis(0, 100 + n), <<112>>))
             date == date_string(c.ts_millis)
         IN  [tree |-> StoreWhole(before.tree, date, c.value),
              appended |-> Append(before.appended,
                                  Entry(c, date, Count(before.tree, date)))]

EarlierRecords == 10

StoreInit ==
    /\ \E n \in {0, EarlierRecords} :
        /\ db = Earlier(n).tree
        /\ appended = Earlier(n).appended
    /\ call = [t \in Threads |-> IdleCall]
    /\ overlap = FALSE
    /\ started = 0
    /\ CodecIdle
    /\ NetIdle
    /\ CryptoIdle
    /\ MeshIdle

\* the call returns
Return(t, c) ==
    /\ call' = [call EXCEPT ![t] = IdleCall]
    /\ appended' = Append(appended, Entry(c.arg, c.date, c.current))

\* the call starts and reads the counter of the day, or date_string panics
\* and the thread that made the call ends there
Begin(t, arg) ==
    /\ call[t].pc = "idle"
    /\ started < MaxAppends
    /\ started' = started + 1
    /\ overlap' = (overlap \/ \E u \in Threads \ {t} : call[u].pc # "idle")
    /\ IF InCalendar(arg.ts_millis)
       THEN \E date \in {date_string(arg.ts_millis)} :
                call' = [call EXCEPT ![t] = [pc |-> "insert_msg", arg |-> arg,
                                             date |-> date, current |-> Count(db, date),
                                             dates |-> <<>>]]
       ELSE call' = [call EXCEPT ![t] = [IdleCall EXCEPT !.pc = "panicked", !.arg = arg]]
    /\ UNCHANGED <<db, appended>>
    /\ UNCHANGED <<codecVars, netVars, cryptoVars, meshVars>>

\* db.insert(msg_key, data)
InsertMsg(t) ==
    /\ call[t].pc = "insert_msg"
    /\ db' = Insert(db, MsgKey(call[t].date, call[t].current), call[t].arg.value)
    /\ call' = [call EXCEPT ![t].pc = "insert_cnt"]
    /\ UNCHANGED <<appended, overlap, started>>
    /\ UNCHANGED <<codecVars, netVars, cryptoVars, meshVars>>

\* db.insert(cnt_key, next); a call that did not read 0 flushes and returns
InsertCnt(t) ==
    /\ call[t].pc = "insert_cnt"
    /\ db' = Insert(db, CntKey(call[t].date), Bytes(encode_count(call[t].current + 1)))
    /\ IF call[t].current = 0
       THEN call' = [call EXCEPT ![t].pc = "get_index"] /\ UNCHANGED appended
       ELSE Return(t, call[t])
    /\ UNCHANGED <<overlap, started>>
    /\ UNCHANGED <<codecVars, netVars, cryptoVars, meshVars>>

\* db.get("index"); a call that finds its date there flushes and returns
GetIndex(t) ==
    /\ call[t].pc = "get_index"
    /\ \E dates \in {Dates(db)} :
        IF \E n \in 1..Len(dates) : dates[n] = call[t].date
        THEN Return(t, call[t])
        ELSE call' = [call EXCEPT ![t].pc = "insert_index", ![t].dates = dates]
                /\ UNCHANGED appended
    /\ UNCHANGED <<db, overlap, started>>
    /\ UNCHANGED <<codecVars, netVars, cryptoVars, meshVars>>

\* push, sort, join, db.insert("index", body), flush, return
InsertIndex(t) ==
    /\ call[t].pc = "insert_index"
    /\ db' = Insert(db, IdxKey,
                    Bytes(JoinLines(SortStrings(Append(call[t].dates, call[t].date)))))
    /\ Return(t, call[t])
    /\ UNCHANGED <<overlap, started>>
    /\ UNCHANGED <<codecVars, netVars, cryptoVars, meshVars>>

StoreNext ==
    \/ \E t \in Threads, arg \in LogCalls : Begin(t, arg)
    \/ \E t \in Threads : InsertMsg(t)
    \/ \E t \in Threads : InsertCnt(t)
    \/ \E t \in Threads : GetIndex(t)
    \/ \E t \in Threads : InsertIndex(t)

StoreSpec == StoreInit /\ [][StoreNext]_vars

AllReturned == \A t \in Threads : call[t].pc = "idle"


\* the days that have a returned call, and the returned calls of a day
StoreDays == {appended[i].days : i \in 1..Len(appended)}
OnDay(d) == SelectSeq(appended, LAMBDA e : e.days = d)
SortedDays == SortDedup([i \in 1..Len(appended) |-> appended[i].days])

\* every returned call has a timestamp before the year 10000
FourDigitYears == \A d \in StoreDays : CivilFromDays(d).year <= 9999

\* str is the eight digits YYYYMMDD of the day d
IsYYYYMMDD(str, d) ==
    /\ Len(str) = 8
    /\ \A i \in 1..8 : str[i] >= DIGIT_0 /\ str[i] <= DIGIT_9
    /\ DecimalValue(SubSeq(str, 1, 4)) = CivilFromDays(d).year
    /\ DecimalValue(SubSeq(str, 5, 6)) = CivilFromDays(d).month
    /\ DecimalValue(SubSeq(str, 7, 8)) = CivilFromDays(d).day

\* C27: when all calls have returned, whatever their interleaving was, the
\* counter of each day equals the number of calls that returned for it, the
\* message keys of these calls are distinct, and each key holds the value
\* of its call.  (Stated for timestamps before the year 10000.)
C27_Original ==
    (AllReturned /\ FourDigitYears)
        => \A d \in StoreDays :
            LET es == OnDay(d)
            IN  /\ Count(db, es[1].date) = Len(es)
                /\ \A i \in 1..Len(es) : Get(db, es[i].key) = Some(es[i].value)
                /\ \A i, j \in 1..Len(es) : i # j => es[i].key # es[j].key

\* C28: after calls that did not overlap, list_dates() is the list of the
\* YYYYMMDD names of the days that have a record, each once, earliest first.
C28_Original ==
    (AllReturned /\ ~overlap)
        => /\ Len(list_dates(db)) = Len(SortedDays)
           /\ \A i \in 1..Len(SortedDays) : IsYYYYMMDD(list_dates(db)[i], SortedDays[i])

\* C29: after calls that did not overlap, load_structured_day of the name a
\* day is stored under returns the records of the calls for that day, each
\* once, in the order of the calls; cnt:d is their number and the i-th of
\* them is the value of the key d<i>.
C29_Original ==
    (AllReturned /\ ~overlap)
        => \A d \in StoreDays :
            LET es == OnDay(d)
                date == es[1].date
            IN  /\ load_structured_day(db, date) = [i \in 1..Len(es) |-> Unwrap(es[i].loads_as)]
                /\ Count(db, date) = Len(es)
                /\ \A i \in 1..Len(es) : Get(db, MsgKey(date, i - 1)) = Some(es[i].value)

-----------------------------------------------------------------------------
(* The removal phase on its own: the loop is at the end of the dispatch     *)
(* phase of an iteration, with some peers in the table and some marks in   *)
(* remove_indices, and removes.                                            *)

MaxPeers == 3        \* peers in the table at the end of the dispatch phase
MaxMarks == 3        \* entries of remove_indices

\* the decoder of the peer with this uid, with an incomplete frame buffered
BusyDecoder(uid) == feed(NewDecoder, SubSeq(encode(chat(<<104>>, uid)), 1, HEADER_LEN - uid))

\* the meta a HELLO of the peer with this uid left
KnownMeta(uid) == Some(PeerMeta(<<uid>>, TRUE, uid, Some(<<AT_SIGN, 97 + uid>>)))

\* marks of the read phase, then marks of the dispatch phase: every sequence
\* of at most MaxMarks indices of the table
MarkLists(n) == SeqsUpTo(0..(n - 1), MaxMarks)

RemovalInit ==
    /\ pc = "dispatch"
    /\ listener = None
    /\ rx_thread = <<>>
    /\ \E st \in InitStores : identity = st[1] /\ handle = st[2]
    /\ \E n \in 0..MaxPeers, known \in BOOLEAN, stale \in BOOLEAN :
        /\ clients = [i \in 1..n |-> Socket(i)]
        /\ decoders = [i \in 1..n |-> IF i % 2 = 0 THEN BusyDecoder(i) ELSE NewDecoder]
        /\ (stale \/ ~known) => n > 0
        \* stale: the meta of a peer that Command::Chat took out of the other
        \* two tables is still in front
        /\ peer_meta = (IF stale THEN <<KnownMeta(0)>> ELSE <<>>)
                            \o [i \in 1..n |-> IF known \/ i % 2 = 0 THEN KnownMeta(i) ELSE None]
        /\ remove_indices \in MarkLists(n)
        /\ next_uid = n + 1
    /\ received_frames = <<>>
    /\ tx_main = <<>>
    /\ written = <<>>
    /\ records = <<>>
    /\ steps = 0
    /\ shorts = 0
    /\ decode_errs = <<>>
    /\ dispatched = <<>>
    /\ cmd = None
    /\ failed = {}
    /\ CodecIdle
    /\ CryptoIdle
    /\ StoreIdle
    /\ MeshIdle

RemovalSpec == RemovalInit /\ [][Finish]_vars

\* the indices in remove_indices
Marked == {remove_indices[i] : i \in 1..Len(remove_indices)}

\* the entries of a table whose index is not marked, in the order of the table
Unmarked(table) ==
    LET keep == {p \in 1..Len(table) : (p - 1) \notin Marked}
        nth(j) == CHOOSE p \in keep : Cardinality({q \in keep : q < p}) = j - 1
    IN  [j \in 1..Cardinality(keep) |-> table[nth(j)]]

\* C30: the removal at the end of an iteration leaves, in each of the three
\* tables, exactly the entries whose index is not in remove_indices, in
\* their order and unchanged, whatever the order of the marks and however
\* often an index is marked: an unmarked peer keeps the socket, the decoder
\* with its buffered bytes and the meta it had at its index, at the index
\* lowered by the number of marked peers below it.
C30_RemovalExact ==
    [][IterationEnd
        => /\ clients' = Unmarked(clients)
           /\ decoders' = Unmarked(decoders)
           /\ peer_meta' = Unmarked(peer_meta)
           /\ remove_indices' = <<>>]_vars

\* the removal has run on a table of three peers and left the second one,
\* with its socket, its decoder and its meta
C30_Witness ==
    /\ pc = "cmd"
    /\ remove_indices = <<>>
    /\ next_uid = 4
    /\ clients = <<Socket(2)>>
    /\ decoders = <<BusyDecoder(2)>>
    /\ peer_meta = <<KnownMeta(2)>>

-----------------------------------------------------------------------------
(* The peer table                                                          *)

\* C31 (as the specification states it): after every command and at the end
\* of every iteration the tables of sockets, decoders and metas have the
\* same length, so that index i names one connection in all three.
C31_Original ==
    pc = "cmd" => (Len(clients) = Len(decoders) /\ Len(decoders) = Len(peer_meta))


\* the loop at the start of an iteration with peers already in its table, as
\* earlier iterations leave it: n peers, those at even uids (or all of them)
\* with the meta of a HELLO, a listener or none, and with or without the meta
\* that Command::Chat left behind when it dropped the peer in front.  All of
\* the budget of steps but one is spent.
TableInit ==
    /\ pc = "cmd"
    /\ listener \in {None, Some(<<DIGIT_0 + 1>>)}
    /\ rx_thread = <<>>
    /\ \E st \in InitStores : identity = st[1] /\ handle = st[2]
    /\ \E n \in 0..MaxPeers, known \in BOOLEAN, stale \in BOOLEAN :
        /\ clients = [i \in 1..n |-> Socket(i)]
        /\ decoders = [i \in 1..n |-> NewDecoder]
        /\ ~known => n > 0
        /\ peer_meta = (IF stale THEN <<KnownMeta(0)>> ELSE <<>>)
                            \o [i \in 1..n |-> IF known \/ i % 2 = 0 THEN KnownMeta(i) ELSE None]
        /\ next_uid = n + 1
    /\ received_frames = <<>>
    /\ remove_indices = <<>>
    /\ tx_main = <<>>
    /\ written = <<>>
    /\ records = <<>>
    /\ steps = MaxSteps - 1
    /\ shorts = 0
    /\ decode_errs = <<>>
    /\ dispatched = <<>>
    /\ cmd = None
    /\ failed = {}
    /\ CodecIdle
    /\ CryptoIdle
    /\ StoreIdle
    /\ MeshIdle

TableSpec == TableInit /\ [][Next]_vars

\* the ids of the events of this name in a sequence of events
EventIds(evs, name) == {evs[j].id : j \in {n \in 1..Len(evs) : evs[n].ev = name}}

\* the writes of wr on the socket uid
WritesOn(wr, uid) == SelectSeq(wr, LAMBDA w : w.uid = uid)

\* w carries one signed HELLO whose payload is the local handle
SignedHelloOf(w, h) ==
    /\ Len(Decoded(w.frame)) = 1
    /\ Decoded(w.frame)[1].kind = HELLO
    /\ Decoded(w.frame)[1].payload = as_bytes(h)
    /\ FrameVerifies(Decoded(w.frame)[1])

\* the step has created the entry of id: a socket, an empty decoder and the
\* meta None at index id of the three tables, one event with this id, and
\* one signed HELLO on the new socket if and only if an identity is loaded
EntryCreatedAt(id, name) ==
    /\ id < Len(clients') /\ id < Len(decoders') /\ id < Len(peer_meta')
    /\ clients'[id + 1].uid \notin {clients[i].uid : i \in 1..Len(clients)}
    /\ decoders'[id + 1] = NewDecoder
    /\ peer_meta'[id + 1] = None
    /\ Len(SelectSeq(tx_main', LAMBDA e : e.ev = name /\ e.id = id)) = 1
    /\ LET ws == WritesOn(written', clients'[id + 1].uid)
       IN  IF IsSome(identity)
           THEN Len(ws) = 1 /\ SignedHelloOf(ws[1], handle)
           ELSE ws = <<>>

\* the peers the table held are as they were, those apart on whose socket
\* the read phase of the step found something
ExistingPeersKept ==
    \A i \in 1..Len(clients) :
        (clients[i].inq = <<>> /\ clients[i].status \in {"open", "stalled"})
            => /\ clients'[i] = clients[i]
               /\ decoders'[i] = decoders[i]
               /\ i <= Len(peer_meta) => peer_meta'[i] = peer_meta[i]

\* the step is a Connect that succeeded
Connected == CommandStep("Connect") /\ EventIds(tx_main', "connected") # {}

\* the step is the accept and read phase of an iteration that accepted
Accepted == PollStep /\ EventIds(tx_main', "accepted") # {}

\* C32 (as the specification states it): a successful accept and a successful
\* outbound connect each append one peer at id = the number of peers before,
\* with the meta None and an empty decoder, write one signed HELLO with the
\* local handle to it if and only if an identity is loaded, send one event
\* with its id, and leave the peers the table held as they were.
C32_Original ==
    [][/\ Connected =>
            /\ Len(clients') = Len(clients) + 1
            /\ EntryCreatedAt(Len(clients), "connected")
            /\ ExistingPeersKept
       /\ Accepted =>
            /\ EventIds(tx_main', "accepted")
                    = Len(clients)..(Len(clients') - 1)
            /\ \A id \in Len(clients)..(Len(clients') - 1) : EntryCreatedAt(id, "accepted")
            /\ ExistingPeersKept]_vars

-----------------------------------------------------------------------------
(* The meta of a peer after its HELLO                                      *)

\* the peer the dispatched frame came from has completed HELLO: its entry
\* of peer_meta holds a handle
SourceKnown ==
    /\ CurSrc < Len(peer_meta)
    /\ IsSome(peer_meta[CurSrc + 1])
    /\ IsSome(Unwrap(peer_meta[CurSrc + 1]).handle)

\* C33: the dispatch of a CHAT or DM that carries a key and a signature, from
\* a peer that has completed HELLO, leaves in the peer's meta last_valid =
\* whether the signature verifies and, if it verifies, last_timestamp = the
\* timestamp of the frame; the handle of the meta stays the one the HELLO
\* established; a CHAT or DM without a signature leaves peer_meta as it was.
C33_MetaUpdate ==
    [][(DispatchTurn /\ CurMsg.kind \in {CHAT, DM} /\ SourceKnown) =>
        /\ (IsSome(CurMsg.signature) /\ IsSome(CurMsg.public_key)) =>
            /\ IsSome(peer_meta'[CurSrc + 1])
            /\ Unwrap(peer_meta'[CurSrc + 1]).last_valid = FrameVerifies(CurMsg)
            /\ FrameVerifies(CurMsg) =>
                    Unwrap(peer_meta'[CurSrc + 1]).last_timestamp = CurMsg.timestamp
            /\ Unwrap(peer_meta'[CurSrc + 1]).handle = Unwrap(peer_meta[CurSrc + 1]).handle
        /\ ~IsSome(CurMsg.signature) => peer_meta' = peer_meta]_vars

\* a peer sent a HELLO and then, in a later read, a CHAT signed with another
\* key: the meta holds that key, the timestamp of the CHAT and the handle of
\* the HELLO
C33_Witness ==
    /\ pc = "dispatch"
    /\ Len(dispatched) = 2
    /\ dispatched[1][2] = SignedWith(hello(7, HandleA), KeyA)
    /\ dispatched[2][2] = SignedWith(chat(TextA, 9), KeyB)
    /\ peer_meta = <<Some(PeerMeta(KeyB.public, TRUE, 9, Some(HandleA)))>>

-----------------------------------------------------------------------------
(* The local handle                                                        *)

\* the text starts with a handle that obeys the handle rule, then ": "
HandlePrefixed(text) ==
    \E n \in 1..(Len(text) - 1) :
        /\ text[n] = COLON
        /\ text[n + 1] = SPACE
        /\ valid_handle(SubSeq(text, 1, n - 1))

\* C34 (as the specification states it): the payload of every HELLO this
\* node writes starts with '@' and has fewer than 80 codepoints, and the
\* body of every CHAT and DM it composes starts with such a handle,
\* whatever handle the store held at start and whatever Handle commands came.
C34_Original ==
    /\ \A j \in 1..Len(written) :
        \A m \in Elems(Decoded(written[j].frame)) :
            m.kind = HELLO => valid_handle(from_utf8_lossy(m.payload))
    /\ (pc = "cmd" /\ IsSome(cmd) /\ Unwrap(cmd).name \in {"Chat", "Dm"})
            => \A j \in 1..Len(records) : HandlePrefixed(records[j].text)

-----------------------------------------------------------------------------
(* A mesh: several nodes run the loop and are connected to one another by  *)
(* sockets.  The HELLOs have been exchanged; one node is given one Chat    *)
(* command, and every node goes through its iterations: it reads what is   *)
(* in flight towards it, decodes it and dispatches each frame.             *)

MeshNodes == {1, 2, 3}
MaxTransmissions == 16      \* frames written to sockets in a run

\* the connections a mesh may have: any two nodes
MeshLinks == {e \in SUBSET MeshNodes : Cardinality(e) = 2}

\* the elements of a set of nodes, in ascending order
RECURSIVE Ascending(_)
Ascending(S) ==
    IF S = {} THEN <<>>
    ELSE LET least == CHOOSE x \in S : \A y \in S : x <= y
         IN  <<least>> \o Ascending(S \ {least})

\* the keys and the handle of node n
MeshKey(n) == KeyPair(n)
MeshHandle(n) == <<AT_SIGN, 96 + n>>

MeshInit ==
    /\ \E links \in SUBSET MeshLinks :
        m_clients = [n \in MeshNodes |-> Ascending({p \in MeshNodes : {n, p} \in links})]
    /\ m_inq = [l \in MeshNodes \X MeshNodes |-> <<>>]
    /\ m_shown = [n \in MeshNodes |-> <<>>]
    /\ m_sent = 0
    /\ m_cmd = FALSE
    /\ CodecIdle
    /\ NetIdle
    /\ CryptoIdle
    /\ StoreIdle

\* c.write_all(&frame) on the socket of node n at index idx (0-based)
MeshWrite(inq, n, idx, frame) ==
    [inq EXCEPT ![<<n, m_clients[n][idx + 1]>>] = @ \o frame]

\* the write loop of Command::Chat of node n, from index i on
RECURSIVE MeshChatWrites(_, _, _, _)
MeshChatWrites(n, i, frame, inq) ==
    IF i >= Len(m_clients[n]) THEN inq
    ELSE MeshChatWrites(n, i + 1, frame, MeshWrite(inq, n, i, frame))

\* Command::Chat(rest) at node n
MeshChat(n, rest) ==
    /\ ~m_cmd
    /\ m_sent + Len(m_clients[n]) <= MaxTransmissions
    /\ \E now \in Clock :
        LET body == MeshHandle(n) \o <<COLON, SPACE>> \o rest
            m == build_signed_chat(body, now, MeshKey(n).pkcs8, MeshKey(n).public)
        IN  m_inq' = MeshChatWrites(n, 0, encode(m), m_inq)
    /\ m_sent' = m_sent + Len(m_clients[n])
    /\ m_cmd' = TRUE
    /\ UNCHANGED <<m_clients, m_shown>>
    /\ UNCHANGED <<codecVars, netVars, cryptoVars, storeVars>>

\* the read phase of node n from the socket at index idx on: each socket's
\* bytes in flight (fewer than BUF_SIZE) are read and fed to a decoder, and
\* the frames drain() returns are pushed to received_frames with the index
RECURSIVE MeshRead(_, _)
MeshRead(n, idx) ==
    IF idx >= Len(m_clients[n]) THEN <<>>
    ELSE LET msgs == Decoded(m_inq[<<m_clients[n][idx + 1], n>>])
         IN  [j \in 1..Len(msgs) |-> <<idx, msgs[j]>>] \o MeshRead(n, idx + 1)

\* the relay loop of node n over its sockets from index idx on
RECURSIVE MeshRelay(_, _, _, _, _)
MeshRelay(n, idx, src, frame, acc) ==
    IF idx >= Len(m_clients[n]) THEN acc
    ELSE IF idx = src THEN MeshRelay(n, idx + 1, src, frame, acc)
    ELSE MeshRelay(n, idx + 1, src, frame,
            [acc EXCEPT !.inq = MeshWrite(@, n, idx, frame), !.sent = @ + 1])

\* the dispatch loop of node n over the received CHAT frames: each is shown
\* to the controller and relayed
RECURSIVE MeshDispatch(_, _, _)
MeshDispatch(n, frames, acc) ==
    IF frames = <<>> THEN acc
    ELSE LET src == Head(frames)[1]
             msg == Head(frames)[2]
             txt == from_utf8_lossy(msg.payload)
             a == [acc EXCEPT !.shown = Append(@, Event("display", -1, txt,
                                                        SignedState(msg)))]
         IN  MeshDispatch(n, Tail(frames), MeshRelay(n, 0, src, encode(msg), a))

\* one iteration of the loop of node n with something to read
MeshIterate(n) ==
    /\ \E p \in MeshNodes : m_inq[<<p, n>>] # <<>>
    /\ \E r \in {MeshDispatch(n, MeshRead(n, 0),
                    [inq |-> [l \in DOMAIN m_inq |-> IF l[2] = n THEN <<>> ELSE m_inq[l]],
                     shown |-> m_shown[n], sent |-> m_sent])} :
        /\ r.sent <= MaxTransmissions
        /\ m_inq' = r.inq
        /\ m_shown' = [m_shown EXCEPT ![n] = r.shown]
        /\ m_sent' = r.sent
    /\ UNCHANGED <<m_clients, m_cmd>>
    /\ UNCHANGED <<codecVars, netVars, cryptoVars, storeVars>>

MeshNext ==
    \/ \E n \in MeshNodes, rest \in ChatTexts : MeshChat(n, rest)
    \/ \E n \in MeshNodes : MeshIterate(n)

MeshSpec == MeshInit /\ [][MeshNext]_vars

\* C35 (as the specification states it): in any mesh, also one whose
\* connections form a cycle, one Chat command causes finitely many writes of
\* frames and every other node shows the message to its controller at most
\* once.  The formula is the second half: no node has shown it twice.
C35_Original ==
    \A n \in MeshNodes : Len(m_shown[n]) <= 1

-----------------------------------------------------------------------------
(* Frames of a peer that is already marked                                 *)

\* the dispatch of the frame marks the peer it came from: a DISCONNECT, a
\* HELLO that fails validation, a CHAT or DM with an over-long handle
MarksSource(msg) ==
    \/ msg.kind = DISCONNECT
    \/ /\ msg.kind = HELLO
       /\ IsSome(msg.public_key)
       /\ \/ ~IsSome(msg.signature)
          \/ ~FrameVerifies(msg)
          \/ ~valid_handle(from_utf8_lossy(msg.payload))
    \/ /\ msg.kind \in {CHAT, DM}
       /\ IsSome(find(FrameText(msg), COLON))
       /\ LongTrimmedPrefix(FrameText(msg), HANDLE_LIMIT)

\* an earlier turn of this dispatch phase has marked the peer whose frame is
\* dispatched now
SourceMarked ==
    \E j \in 1..Len(dispatched) :
        dispatched[j][1] = CurUid /\ MarksSource(dispatched[j][2])

\* C36 (as the specification states it): once the dispatch phase of an
\* iteration has marked a peer for removal, a later frame of that peer in the
\* same iteration sends no event to the controller, stores no record, is
\* written to no peer and leaves peer_meta as it is.
C36_Original ==
    [][(DispatchTurn /\ SourceMarked) =>
            /\ NewEvents = <<>>
            /\ NewRecords = <<>>
            /\ NewWrites = <<>>
            /\ peer_meta' = peer_meta]_vars

-----------------------------------------------------------------------------
(* Valid frames in front of a malformed one                                *)

\* the well-formed frames a remote end sends
RemoteMessages == HelloFrames \cup ChatFrames \cup DmFrames \cup DisconnectFrames

\* C37 (as the specification states it): a well-formed frame is not lost to
\* a malformed one behind it.  The formula is the case of one read: a peer
\* whose decoder is empty has a complete valid frame and then a header with
\* an unsupported version in flight, and the read phase reads them at once;
\* the valid frame is among the frames the iteration dispatches.
C37_Original ==
    [][(PollStep /\ shorts' = shorts) =>
        \A i \in 1..Len(clients) : \A m \in RemoteMessages :
            (/\ decoders[i].buf = <<>>
             /\ clients[i].status = "open"
             /\ clients[i].inq = encode(m) \o BadVersionHeader)
                => \E j \in 1..Len(received_frames') : received_frames'[j] = <<i - 1, m>>]_vars

-----------------------------------------------------------------------------
(* Timestamps of remote frames in the message log                          *)

\* C38 (as the specification states it): the loop stores the record of a
\* received CHAT or DM under the timestamp of the frame, whatever 64-bit
\* value it is: the call does not end the thread of the loop, and a record
\* that is stored is stored under the eight digits YYYYMMDD of its day.
C38_Original ==
    /\ \A t \in Threads : call[t].pc # "panicked"
    /\ \A i \in 1..Len(appended) : IsYYYYMMDD(appended[i].date, appended[i].days)

-----------------------------------------------------------------------------
(* The CHAT that brings the over-long-handle disconnect                    *)

\* the frame dispatched in this turn is a CHAT on which the check of the
\* "@...:" prefix fires
LongHandleChat ==
    /\ DispatchTurn
    /\ CurMsg.kind = CHAT
    /\ IsSome(find(FrameText(CurMsg), COLON))
    /\ LongTrimmedPrefix(FrameText(CurMsg), HANDLE_LIMIT)

\* C39 (as the specification states it): a CHAT that brings the
\* over-long-handle disconnect is written to no other peer: the writes of
\* its turn of the dispatch loop are on the socket of its source only.
C39_Original ==
    [][LongHandleChat =>
        \A j \in 1..Len(NewWrites) :
            /\ NewWrites[j].uid = CurUid
            /\ NewWrites[j].frame # encode(CurMsg)]_vars

=============================================================================
